---------------------------- MODULE Spec2Model ----------------------------
(***************************************************************************)
(* State-machine model of the image labeler.                               *)
(*                                                                         *)
(* The repository holds two implementations of the same logic:             *)
(*   - the monolithic application  src/main.py  (class ImageLabeler),      *)
(*   - the refactored managers     src/core/*.py (ImageManager,            *)
(*     ZoomManager, LabelManager), which no file of the repository wires   *)
(*     into an application; they are modelled as objects whose public      *)
(*     methods may be called in any order.                                 *)
(* A run uses one of the two (variable app).  Both work on the same label  *)
(* directory (variable files).                                             *)
(*                                                                         *)
(* Numbers.  Python floats are modelled in fixed point:                    *)
(*   scale factors      in 1/1000          (Percent(100) = 1.0),           *)
(*   canvas positions   in half pixels     (Px(1) = one pixel),            *)
(*   normalized coords  in 1/CoordUnit = 1e-7, one digit finer than the    *)
(*                      six decimals a label file keeps,                   *)
(*   time               in ticks of 25 ms.                                 *)
(* Quotients are truncated toward zero at that resolution.                 *)
(***************************************************************************)
EXTENDS Integers, Sequences, FiniteSets, TLC

(***************************************************************************)
(* Bounds of the model.                                                    *)
(***************************************************************************)
MaxBoxes == 2        \* a draw gesture or add_box is taken only below this length
MaxAfter == 1        \* pending root.after(100, scale_image_to_fit) callbacks kept
MaxViewOps == 1      \* step zooms and pan moves that change the view, per run
MaxTime == 4         \* the clock stops after this many ticks
MaxRects == 4        \* overlay rectangle handles a pointer release may leave

(***************************************************************************)
(* Program constants (src/utils/constants.py and the literals of main.py). *)
(***************************************************************************)
Percent(p) == 10 * p
Px(n) == 2 * n
COORDINATE_PRECISION == 6
CoordUnit == 10 ^ (COORDINATE_PRECISION + 1)
MIN_ZOOM == Percent(10)
MAX_ZOOM_MOUSE == Percent(200)
MAX_ZOOM_KEYBOARD == Percent(200)
MIN_BOX_SIZE == 5
DEFAULT_CLASS_ID == [v |-> 0, isint |-> TRUE]

Abs(n) == IF n < 0 THEN -n ELSE n
Min(a, b) == IF a <= b THEN a ELSE b
Max(a, b) == IF a >= b THEN a ELSE b
Sgn(n) == IF n < 0 THEN -1 ELSE 1

(***************************************************************************)
(* The image directory.  An image is known by its id; None is "no image".  *)
(*   1  a.png   1000 x 500                                                 *)
(*   2  b.png     40 x 30    (smaller than any canvas)                     *)
(*   3  c.png   a file PIL cannot decode                                   *)
(*   4  a.jpg  10000 x 5000  (more than ten times the canvas)              *)
(***************************************************************************)
None == 0
ImageIds == 1 .. 4
ImageSize(i) ==
    CASE i = 1 -> <<1000, 500>>
      [] i = 2 -> <<40, 30>>
      [] i = 4 -> <<10000, 5000>>
      [] OTHER -> <<1, 1>>
Decodable(i) == i # 3
\* os.path.splitext(os.path.basename(image_path))[0]
Stem(i) ==
    CASE i = 1 -> "a"
      [] i = 2 -> "b"
      [] i = 3 -> "c"
      [] OTHER -> "a"
Stems == {"a", "b", "c"}

(***************************************************************************)
(* Label files.  A file is absent, a readable text file (a sequence of     *)
(* lines, each line the sequence of its whitespace-separated tokens), or   *)
(* "locked": present, but open() raises for reading and for writing.       *)
(* A token is a number (value in 1/CoordUnit, dot: written with a decimal  *)
(* point) or text that float() rejects.                                    *)
(***************************************************************************)
Num(v, dot) == [ok |-> TRUE, v |-> v, dot |-> dot]
BadTok == [ok |-> FALSE, v |-> 0, dot |-> FALSE]
Absent == [st |-> "absent", lines |-> <<>>]
Locked == [st |-> "locked", lines |-> <<>>]
TextFile(ls) == [st |-> "file", lines |-> ls]

Box(c, xc, yc, w, h) ==
    [class_id |-> c, x_center |-> xc, y_center |-> yc, width |-> w, height |-> h]

\* a formatting that keeps one decimal place less
Round6_FiveDecimals(v) == Sgn(v) * 100 * ((Abs(v) + 50) \div 100)
\* "{x:.6f}": the nearest multiple of 1e-6
Round6(v) == Sgn(v) * 10 * ((Abs(v) + 5) \div 10)
FormatCoord(v) == Num(Round6(v), TRUE)
\* f"{class_id}": an int prints without a decimal point, a float with one
FormatClassId(c) == Num(c.v, ~c.isint)
FormatLine(b) ==
    << FormatClassId(b.class_id), FormatCoord(b.x_center), FormatCoord(b.y_center),
       FormatCoord(b.width), FormatCoord(b.height) >>
FormatLines(bs) == [i \in 1 .. Len(bs) |-> FormatLine(bs[i])]

\* map(float, parts): every value becomes a float, the class id too
ParseFloat(t) == t.v
ParseLine(parts) ==
    Box([v |-> ParseFloat(parts[1]), isint |-> FALSE], ParseFloat(parts[2]),
        ParseFloat(parts[3]), ParseFloat(parts[4]), ParseFloat(parts[5]))
LineRaises(parts) == \E k \in 1 .. Len(parts) : ~parts[k].ok

\* for line in f: ... ; the loop stops at the first line whose float() raises
RECURSIVE LoadLines(_, _)
LoadLines(lines, acc) ==
    IF lines = <<>> THEN [boxes |-> acc, raised |-> FALSE]
    ELSE IF Len(Head(lines)) # 5 THEN LoadLines(Tail(lines), acc)
    ELSE IF LineRaises(Head(lines)) THEN [boxes |-> acc, raised |-> TRUE]
    ELSE LoadLines(Tail(lines), Append(acc, ParseLine(Head(lines))))

\* with open(label_path, "r") as f: <loop>, inside one try
ReadLabelFile(f, acc) ==
    IF f.st = "locked" THEN [boxes |-> acc, raised |-> TRUE]
    ELSE LoadLines(f.lines, acc)

\* with open(label_path, "w") as f: <write every box>
WriteLabelFile(f, bs) ==
    IF f.st = "locked" THEN [file |-> f, raised |-> TRUE]
    ELSE [file |-> TextFile(FormatLines(bs)), raised |-> FALSE]

\* a removal that leaves the file in place
DeleteFile_Kept(f) == f
\* os.path.exists / os.remove
DeleteFile(f) == Absent


(***************************************************************************)
(* Exact quotient n/d of two integers in 1/CoordUnit, by long division.    *)
(***************************************************************************)
RECURSIVE FracDigits(_, _, _)
FracDigits(r, d, k) ==
    IF k = 0 THEN 0
    ELSE ((r * 10) \div d) * 10 ^ (k - 1) + FracDigits((r * 10) % d, d, k - 1)
DecDiv(n, d) ==
    Sgn(n) * ((Abs(n) \div d) * CoordUnit
              + FracDigits(Abs(n) % d, d, COORDINATE_PRECISION + 1))
\* float division and multiplication of fixed-point values, truncated toward zero
MulDiv(a, b, c) == Sgn(a) * ((Abs(a) * b) \div c)

(***************************************************************************)
(* State.                                                                  *)
(*   app     which implementation runs: "monolith" (main.py) or            *)
(*           "managers" (src/core)                                         *)
(*   self    the fields of main.py's ImageLabeler                          *)
(*   im, zm, lm   the fields of ImageManager, ZoomManager, LabelManager    *)
(*   files   the labels directory: stem -> label file                      *)
(*   canvas  <<winfo_width, winfo_height>> of the labeling canvas          *)
(*   view    which of the two screens is packed: "grid" or "labeling"      *)
(*   after   pending root.after(100, self.scale_image_to_fit) callbacks    *)
(*   button  mouse button 1 is held down over the canvas                   *)
(*   now     time.time() in ticks                                          *)
(*   images_dir  the listing of the images directory                       *)
(*   budget  the bounds of the run: view_ops, the view-changing step zooms *)
(*           and pan moves still allowed; boxes, the longest box list;     *)
(*           history, whether last_event is recorded                       *)
(*   last_event  the last handler run: its name, whether an exception      *)
(*           escaped it, what it returned and its argument: the image or   *)
(*           path it was given; for clear_labels, 1 when a label file      *)
(*           existed (history, read by no action)                          *)
(***************************************************************************)
VARIABLES app, images_dir, self, im, zm, lm, files, canvas, view, after, button,
          now, budget, last_event

vars == <<app, images_dir, self, im, zm, lm, files, canvas, view, after, button,
          now, budget, last_event>>

Event(name, exc, ret, arg) == [name |-> name, exc |-> exc, ret |-> ret, arg |-> arg]
NoEvent == Event("init", FALSE, FALSE, 0)

\* ImageLabeler.__init__ (lines 82-136), before load_images_auto
NewImageLabeler(imgs) ==
    [ images |-> imgs, current_image_index |-> 0, image_path |-> None,
      boxes |-> <<>>, box_rects |-> 0, scale_factor |-> Percent(100),
      original_image |-> None, image_x |-> 0, image_y |-> 0,
      image_canvas_id |-> FALSE,
      last_mouse_x |-> 0, last_mouse_y |-> 0, last_zoom_time |-> 0,
      pan_start_x |-> 0, pan_start_y |-> 0, is_panning |-> FALSE,
      start_x |-> 0, start_y |-> 0, rect |-> FALSE, drawing_box |-> FALSE,
      saved |-> <<>> ]

(***************************************************************************)
(* The methods of ImageLabeler, as functions of a "world" w: the object    *)
(* w.o, the label files w.files, the pending callbacks w.after, and w.exc, *)
(* set when an exception escapes (the rest of the handler is then skipped, *)
(* Tk reports the exception and the event loop goes on).                   *)
(***************************************************************************)
World == [o |-> self, files |-> files, after |-> after, exc |-> FALSE]

LabelPath(o) == Stem(o.image_path)

\* main.py redraw_boxes: one canvas rectangle appended per box
redraw_boxes(w) ==
    IF w.o.original_image = None THEN w
    ELSE [w EXCEPT !.o.box_rects = @ + Len(w.o.boxes)]

\* a redraw that drops the boxes together with their canvas rectangles
update_displayed_image_DropsBoxes(w) ==
    IF w.o.original_image = None THEN w
    ELSE IF w.o.drawing_box THEN w
    ELSE redraw_boxes([w EXCEPT !.o.image_canvas_id = TRUE, !.o.box_rects = 0,
                                !.o.boxes = <<>>])

\* lines 315-348: the image item is recreated and the rectangles redrawn
update_displayed_image(w) ==
    IF w.o.original_image = None THEN w
    ELSE IF w.o.drawing_box THEN w
    ELSE redraw_boxes([w EXCEPT !.o.image_canvas_id = TRUE, !.o.box_rects = 0])

\* int(img_width * self.scale_factor)
ScaledSize(len, scale) == (len * scale) \div Percent(100)
\* a centring that also applies to an image larger than the canvas
CenterOffset_Always(canvas_len, new_len) == Px(canvas_len - new_len) \div 2

\* (canvas_width - new_width) / 2 when the scaled image is smaller, else 0
CenterOffset(canvas_len, new_len) ==
    IF new_len < canvas_len THEN Px(canvas_len - new_len) \div 2 ELSE 0
\* min(canvas_width / img_width, canvas_height / img_height) * 0.9
FitScale(cv, size) ==
    Min((cv[1] * Percent(90)) \div size[1], (cv[2] * Percent(90)) \div size[2])

scale_image_to_fit(w, cv) ==
    IF w.o.original_image = None THEN w
    ELSE IF w.o.drawing_box THEN w
    ELSE IF cv[1] <= 1 \/ cv[2] <= 1
         THEN [w EXCEPT !.after = Min(@ + 1, MaxAfter)]
    ELSE LET size == ImageSize(w.o.original_image)
             s == Max(MIN_ZOOM, Min(MAX_ZOOM_KEYBOARD, FitScale(cv, size)))
         IN  update_displayed_image(
                 [w EXCEPT !.o.scale_factor = s,
                           !.o.image_x = CenterOffset(cv[1], ScaledSize(size[1], s)),
                           !.o.image_y = CenterOffset(cv[2], ScaledSize(size[2], s))])

display_image(w, cv) ==
    IF w.o.images = <<>> THEN w
    ELSE LET p == w.o.images[w.o.current_image_index + 1]
             w1 == [w EXCEPT !.o.boxes = <<>>, !.o.box_rects = 0,
                             !.o.image_x = 0, !.o.image_y = 0,
                             !.o.image_path = p]
         IN  IF ~Decodable(p) THEN [w1 EXCEPT !.exc = TRUE]
             ELSE scale_image_to_fit([w1 EXCEPT !.o.original_image = p], cv)

\* a load that writes the boxes it has read back to the label file
load_boxes_Rewrites(w) ==
    LET w1 == [w EXCEPT !.o.boxes = <<>>, !.o.box_rects = 0]
    IN  IF w1.o.image_path = None THEN w1
        ELSE LET f == w1.files[LabelPath(w1.o)]
             IN  IF f.st = "absent" THEN w1
                 ELSE LET r == ReadLabelFile(f, <<>>)
                          w2 == [w1 EXCEPT !.o.boxes = r.boxes,
                                           !.files[LabelPath(w1.o)] =
                                               WriteLabelFile(f, r.boxes).file]
                      IN  IF r.raised THEN w2 ELSE redraw_boxes(w2)

load_boxes(w) ==
    LET w1 == [w EXCEPT !.o.boxes = <<>>, !.o.box_rects = 0]
    IN  IF w1.o.image_path = None THEN w1
        ELSE LET f == w1.files[LabelPath(w1.o)]
             IN  IF f.st = "absent" THEN w1
                 ELSE LET r == ReadLabelFile(f, <<>>)
                          w2 == [w1 EXCEPT !.o.boxes = r.boxes]
                      IN  IF r.raised THEN w2 ELSE redraw_boxes(w2)

prev_image(w, cv) ==
    IF w.o.images = <<>> THEN w
    ELSE LET n == Len(w.o.images)
             w1 == display_image(
                     [w EXCEPT !.o.current_image_index = (@ - 1) % n], cv)
         IN  IF w1.exc THEN w1 ELSE load_boxes(w1)

\* a next_image that stops at the last image
next_image_Clamped(w, cv) ==
    IF w.o.images = <<>> THEN w
    ELSE LET n == Len(w.o.images)
             w1 == display_image(
                     [w EXCEPT !.o.current_image_index = Min(@ + 1, n - 1)], cv)
         IN  IF w1.exc THEN w1 ELSE load_boxes(w1)

next_image(w, cv) ==
    IF w.o.images = <<>> THEN w
    ELSE LET n == Len(w.o.images)
             w1 == display_image(
                     [w EXCEPT !.o.current_image_index = (@ + 1) % n], cv)
         IN  IF w1.exc THEN w1 ELSE load_boxes(w1)

show_grid(w) ==
    [w EXCEPT !.o.boxes = <<>>, !.o.box_rects = 0,
              !.o.image_path = None, !.o.original_image = None]

show_labeling_view(w, cv) ==
    LET w1 == IF cv[1] > 1 /\ cv[2] > 1
              THEN [w EXCEPT !.o.last_mouse_x = Px(cv[1]) \div 2,
                             !.o.last_mouse_y = Px(cv[2]) \div 2]
              ELSE w
        w2 == display_image(w1, cv)
    IN  IF w2.exc THEN w2 ELSE load_boxes(w2)

select_image(w, index, cv) ==
    show_labeling_view([w EXCEPT !.o.current_image_index = index], cv)

\* File > Open Image Directory: chosen is false when the dialog is cancelled,
\* dir is the list of image files of the chosen directory; the index is kept
load_images(w, chosen, dir) ==
    IF ~chosen THEN w
    ELSE LET w1 == [w EXCEPT !.o.images = dir]
         IN  IF dir # <<>> THEN show_grid(w1) ELSE w1

save_labels(w) ==
    IF w.o.image_path = None THEN w
    ELSE LET r == WriteLabelFile(w.files[LabelPath(w.o)], w.o.boxes)
         IN  [w EXCEPT !.files[LabelPath(w.o)] = r.file, !.exc = r.raised]

undo_box(w) ==
    IF w.o.boxes # <<>> /\ w.o.box_rects # 0
    THEN LET w1 == save_labels(
                     [w EXCEPT !.o.boxes = SubSeq(@, 1, Len(@) - 1),
                               !.o.box_rects = @ - 1])
         IN  IF w1.exc THEN w1 ELSE update_displayed_image(w1)
    ELSE w

clear_labels(w) ==
    IF w.o.image_path = None THEN w
    ELSE update_displayed_image(
             [w EXCEPT !.o.boxes = <<>>, !.o.box_rects = 0,
                       !.files[LabelPath(w.o)] =
                           IF @.st = "absent" THEN @ ELSE DeleteFile(@)])

start_pan_or_draw(w, x, y, ctrl) ==
    IF ctrl
    THEN [w EXCEPT !.o.drawing_box = TRUE,
                   !.o.saved = <<w.o.scale_factor, w.o.image_x, w.o.image_y>>,
                   !.o.start_x = x, !.o.start_y = y, !.o.rect = TRUE]
    ELSE [w EXCEPT !.o.pan_start_x = x, !.o.pan_start_y = y,
                   !.o.is_panning = TRUE]

pan_or_draw(w, x, y) ==
    IF w.o.rect THEN w
    ELSE IF w.o.is_panning
    THEN LET dx == x - w.o.pan_start_x
             dy == y - w.o.pan_start_y
         IN  IF Abs(dx) > 1 \/ Abs(dy) > 1
             THEN IF ~w.o.image_canvas_id THEN [w EXCEPT !.exc = TRUE]
                  ELSE [w EXCEPT !.o.image_x = @ + Px(dx), !.o.image_y = @ + Px(dy),
                                 !.o.pan_start_x = x, !.o.pan_start_y = y]
             ELSE w
    ELSE w

\* the normalization of lines 602-614 without the image position
NormalizedBox_NoOrigin(o, x1, y1, x2, y2) ==
    LET size == ImageSize(o.original_image)
    IN  Box(DEFAULT_CLASS_ID,
            DecDiv((Px(x1) + Px(x2)) * Percent(50), 2 * o.scale_factor * size[1]),
            DecDiv((Px(y1) + Px(y2)) * Percent(50), 2 * o.scale_factor * size[2]),
            DecDiv(Abs(Px(x2) - Px(x1)) * Percent(50), o.scale_factor * size[1]),
            DecDiv(Abs(Px(y2) - Px(y1)) * Percent(50), o.scale_factor * size[2]))

\* lines 602-614: two canvas corners to a normalized box, at the current view
NormalizedBox(o, x1, y1, x2, y2) ==
    LET size == ImageSize(o.original_image)
        \* x_orig = (x - image_x) / scale_factor, as a fraction over scale_factor
        x1o == (Px(x1) - o.image_x) * Percent(50)
        x2o == (Px(x2) - o.image_x) * Percent(50)
        y1o == (Px(y1) - o.image_y) * Percent(50)
        y2o == (Px(y2) - o.image_y) * Percent(50)
    IN  Box(DEFAULT_CLASS_ID,
            DecDiv(x1o + x2o, 2 * o.scale_factor * size[1]),
            DecDiv(y1o + y2o, 2 * o.scale_factor * size[2]),
            DecDiv(Abs(x2o - x1o), o.scale_factor * size[1]),
            DecDiv(Abs(y2o - y1o), o.scale_factor * size[2]))

\* a size test that one long side passes
BigEnough_EitherAxis(x1, y1, x2, y2) ==
    Abs(x2 - x1) > MIN_BOX_SIZE \/ Abs(y2 - y1) > MIN_BOX_SIZE

\* line 600: abs(x2 - x1) > 5 and abs(y2 - y1) > 5
BigEnough(x1, y1, x2, y2) ==
    Abs(x2 - x1) > MIN_BOX_SIZE /\ Abs(y2 - y1) > MIN_BOX_SIZE

end_pan_or_draw(w, x, y) ==
    IF w.o.rect
    THEN LET x1 == w.o.start_x
             y1 == w.o.start_y
             big == BigEnough(x1, y1, x, y)
             \* self.original_image.size of None raises AttributeError
             w1 == IF ~big THEN w
                   ELSE IF w.o.original_image = None THEN [w EXCEPT !.exc = TRUE]
                   ELSE save_labels(
                          [w EXCEPT !.o.boxes =
                                       Append(@, NormalizedBox(w.o, x1, y1, x, y)),
                                    !.o.box_rects = @ + 1])
         IN  IF w1.exc THEN w1
             \* saved_scale_factor, saved_image_x and saved_image_y are read here
             \* only, and every draw press overwrites them: the values a finished
             \* gesture leaves behind are not kept
             ELSE LET sv == w1.o.saved
                      w2 == [w1 EXCEPT !.o.rect = FALSE, !.o.drawing_box = FALSE,
                                       !.o.saved = <<>>]
                  IN  IF sv # <<w2.o.scale_factor, w2.o.image_x, w2.o.image_y>>
                      THEN update_displayed_image(
                               [w2 EXCEPT !.o.scale_factor = sv[1],
                                          !.o.image_x = sv[2], !.o.image_y = sv[3]])
                      ELSE redraw_boxes(w2)
    \* pan_start_x and pan_start_y are read only while is_panning, and the press
    \* that sets is_panning overwrites them: the stale values are not kept
    ELSE IF w.o.is_panning
    THEN [w EXCEPT !.o.is_panning = FALSE, !.o.pan_start_x = 0, !.o.pan_start_y = 0]
    ELSE w


(***************************************************************************)
(* Zoom (main.py lines 354-452).                                           *)
(***************************************************************************)
ZOOM_COOLDOWN == 2      \* 50 ms, in ticks of 25 ms

zoom_to_scale(w, new_scale, center_on_mouse, cv) ==
    IF w.o.drawing_box THEN w
    ELSE LET valid == w.o.last_mouse_x >= 0 /\ w.o.last_mouse_y >= 0
             mouse_x == IF valid THEN Max(0, Min(w.o.last_mouse_x, Px(cv[1])))
                        ELSE Px(cv[1]) \div 2
             mouse_y == IF valid THEN Max(0, Min(w.o.last_mouse_y, Px(cv[2])))
                        ELSE Px(cv[2]) \div 2
             old == w.o.scale_factor
             \* img = (mouse - image) / old ; image' = mouse - img * new_scale
             w1 == IF center_on_mouse
                   THEN [w EXCEPT !.o.scale_factor = new_scale,
                           !.o.image_x = mouse_x - MulDiv(mouse_x - @, new_scale, old),
                           !.o.image_y = mouse_y - MulDiv(mouse_y - @, new_scale, old)]
                   ELSE [w EXCEPT !.o.scale_factor = new_scale]
         IN  update_displayed_image(w1)

\* scale * n / d <= limit and scale / (n / d) >= limit, decided on the exact
\* product: a scale is stored to 1/1000, the comparison is not
AtMost(scale, n, d, limit) == scale * n <= limit * d
AtLeast(scale, n, d, limit) == scale * n >= limit * d
\* scale * 0.909090909 and scale * 0.952380952: the literal is the quotient n/d
\* cut after nine decimals, so the product is below scale * n / d by less than
\* 1/1000 of a unit and, when d divides scale * n, falls in the unit below
TimesCutLiteral(scale, n, d) ==
    IF (scale * n) % d = 0 THEN (scale * n) \div d - 1 ELSE (scale * n) \div d

zoom_in(w, cv) ==
    LET new_scale == MulDiv(w.o.scale_factor, 11, 10)
    IN  IF AtMost(w.o.scale_factor, 11, 10, MAX_ZOOM_KEYBOARD)
        THEN zoom_to_scale(w, new_scale, FALSE, cv) ELSE w

\* self.scale_factor * 0.909090909
zoom_out(w, cv) ==
    LET new_scale == TimesCutLiteral(w.o.scale_factor, 10, 11)
    IN  IF new_scale >= MIN_ZOOM
        THEN zoom_to_scale(w, new_scale, FALSE, cv) ELSE w

zoom_in_smooth(w, cv) ==
    LET new_scale == MulDiv(w.o.scale_factor, 21, 20)
    IN  IF AtMost(w.o.scale_factor, 21, 20, MAX_ZOOM_MOUSE)
        THEN zoom_to_scale(w, new_scale, TRUE, cv) ELSE w

\* self.scale_factor * 0.952380952
zoom_out_smooth(w, cv) ==
    LET new_scale == TimesCutLiteral(w.o.scale_factor, 20, 21)
    IN  IF new_scale >= MIN_ZOOM
        THEN zoom_to_scale(w, new_scale, TRUE, cv) ELSE w

debounced_zoom_in(w, cv, current_time) ==
    IF current_time - w.o.last_zoom_time >= ZOOM_COOLDOWN
    THEN [zoom_in_smooth(w, cv) EXCEPT !.o.last_zoom_time = current_time]
    ELSE w

debounced_zoom_out(w, cv, current_time) ==
    IF current_time - w.o.last_zoom_time >= ZOOM_COOLDOWN
    THEN [zoom_out_smooth(w, cv) EXCEPT !.o.last_zoom_time = current_time]
    ELSE w

\* _on_zoom_mousewheel / _on_zoom_mouse_scroll: the pointer position, then the zoom
on_zoom_mousewheel(w, cv, x, y, up, current_time) ==
    LET w1 == [w EXCEPT !.o.last_mouse_x = Px(x), !.o.last_mouse_y = Px(y)]
    IN  IF up THEN debounced_zoom_in(w1, cv, current_time)
        ELSE debounced_zoom_out(w1, cv, current_time)

zoom_to_fit(w, cv) == scale_image_to_fit(w, cv)
zoom_to_100(w, cv) == zoom_to_scale(w, Percent(100), FALSE, cv)
zoom_to_200(w, cv) == zoom_to_scale(w, Percent(200), FALSE, cv)

on_mouse_motion(w, x, y) ==
    [w EXCEPT !.o.last_mouse_x = Px(x), !.o.last_mouse_y = Px(y)]


(***************************************************************************)
(* src/core: ImageManager, ZoomManager, LabelManager.  A method is a       *)
(* function of the world c = [im, zm, lm, files, ret, moved]; ret is what  *)
(* the method returns and moved the <<dx, dy>> update_pan handed to its    *)
(* move_callback (<<>> when it was not called).                            *)
(* ZoomManager.update_callback is not modelled: no file of the repository  *)
(* sets it.                                                                *)
(***************************************************************************)
NewImageManager ==
    [ original_image |-> None, scale_factor |-> Percent(100),
      image_x |-> 0, image_y |-> 0, image_canvas_id |-> FALSE ]
NewZoomManager ==
    [ last_mouse_x |-> 0, last_mouse_y |-> 0, last_zoom_time |-> 0,
      is_panning |-> FALSE, pan_start_x |-> 0, pan_start_y |-> 0,
      drawing_box |-> FALSE ]
NewLabelManager == [ boxes |-> <<>> ]

Core == [im |-> im, zm |-> zm, lm |-> lm, files |-> files, ret |-> FALSE,
         moved |-> <<>>]

\* ---- ImageManager
IM_load_image(c, image_path) ==
    IF Decodable(image_path)
    THEN [c EXCEPT !.im.original_image = image_path, !.ret = TRUE]
    ELSE [c EXCEPT !.ret = FALSE]

\* returns the scale; 1.0 without an image or on a canvas not laid out
IM_calculate_fit_scale(m, canvas_width, canvas_height) ==
    IF m.original_image = None \/ canvas_width <= 1 \/ canvas_height <= 1
    THEN Percent(100)
    ELSE FitScale(<<canvas_width, canvas_height>>, ImageSize(m.original_image))

IM_set_scale_and_center(c, scale, canvas_width, canvas_height) ==
    IF c.im.original_image = None THEN [c EXCEPT !.im.scale_factor = scale]
    ELSE LET size == ImageSize(c.im.original_image)
         IN  [c EXCEPT !.im.scale_factor = scale,
                       !.im.image_x = CenterOffset(canvas_width, ScaledSize(size[1], scale)),
                       !.im.image_y = CenterOffset(canvas_height, ScaledSize(size[2], scale))]

\* the fit-to-canvas operation: the scale calculate_fit_scale returns, applied
\* by set_scale_and_center
IM_fit_to_canvas(c, cv) ==
    IM_set_scale_and_center(c, IM_calculate_fit_scale(c.im, cv[1], cv[2]), cv[1], cv[2])

\* create_scaled_image returns None without an image or when PIL refuses the size
IM_display_on_canvas(c) ==
    IF c.im.original_image = None THEN c
    ELSE LET size == ImageSize(c.im.original_image)
         IN  IF ScaledSize(size[1], c.im.scale_factor) <= 0
                \/ ScaledSize(size[2], c.im.scale_factor) <= 0
             THEN c
             ELSE [c EXCEPT !.im.image_canvas_id = TRUE]

IM_move_image(c, dx, dy) ==
    IF c.im.image_canvas_id
    THEN [c EXCEPT !.im.image_x = @ + Px(dx), !.im.image_y = @ + Px(dy)]
    ELSE c

\* image-space coordinates are kept in 1/200 of a pixel; ImgOfCanvas is a
\* canvas coordinate (half pixels) read as the same number of image pixels
ImgPx(n) == 200 * n
ImgOfCanvas(hp) == hp * (ImgPx(1) \div Px(1))
\* a * b / c without forming a * b
WideMulDiv(a, b, c) ==
    Sgn(a) * ((Abs(a) \div c) * b + ((Abs(a) % c) * b) \div c)

\* without an image the canvas coordinates are returned as they are
IM_canvas_to_image_coords(m, canvas_x, canvas_y) ==
    IF m.original_image = None
    THEN <<ImgOfCanvas(canvas_x), ImgOfCanvas(canvas_y)>>
    ELSE << MulDiv(canvas_x - m.image_x, ImgOfCanvas(Percent(100)), m.scale_factor),
            MulDiv(canvas_y - m.image_y, ImgOfCanvas(Percent(100)), m.scale_factor) >>

IM_image_to_canvas_coords(m, img_x, img_y) ==
    << MulDiv(img_x, m.scale_factor, ImgOfCanvas(Percent(100))) + m.image_x,
       MulDiv(img_y, m.scale_factor, ImgOfCanvas(Percent(100))) + m.image_y >>

\* normalize_coordinates without abs(): the size keeps the drawing direction
IM_normalize_coordinates_Signed(m, x1, y1, x2, y2) ==
    IF m.original_image = None THEN <<0, 0, 0, 0>>
    ELSE LET size == ImageSize(m.original_image)
         IN  << DecDiv(x1 + x2, 2 * ImgPx(size[1])),
                DecDiv(y1 + y2, 2 * ImgPx(size[2])),
                DecDiv(x2 - x1, ImgPx(size[1])),
                DecDiv(y2 - y1, ImgPx(size[2])) >>

\* (x_center, y_center, width, height) in 1/CoordUnit; zeros without an image
IM_normalize_coordinates(m, x1, y1, x2, y2) ==
    IF m.original_image = None THEN <<0, 0, 0, 0>>
    ELSE LET size == ImageSize(m.original_image)
         IN  << DecDiv(x1 + x2, 2 * ImgPx(size[1])),
                DecDiv(y1 + y2, 2 * ImgPx(size[2])),
                DecDiv(Abs(x2 - x1), ImgPx(size[1])),
                DecDiv(Abs(y2 - y1), ImgPx(size[2])) >>

\* denormalize_coordinates taking the whole width to either side of the centre
IM_denormalize_coordinates_WholeWidth(m, x_center, y_center, width, height) ==
    IF m.original_image = None THEN <<0, 0, 0, 0>>
    ELSE LET size == ImageSize(m.original_image)
             Corner(v, len) == WideMulDiv(v, len, CoordUnit \div ImgPx(1))
         IN  << Corner(x_center - width, size[1]),
                Corner(y_center - height, size[2]),
                Corner(x_center + width, size[1]),
                Corner(y_center + height, size[2]) >>

\* (x1, y1, x2, y2) in image space; zeros without an image
IM_denormalize_coordinates(m, x_center, y_center, width, height) ==
    IF m.original_image = None THEN <<0, 0, 0, 0>>
    ELSE LET size == ImageSize(m.original_image)
             \* (c -+ w / 2) * img_len, from 1/CoordUnit to 1/200 pixel
             Corner(twice, len) == WideMulDiv(twice, len, (2 * CoordUnit) \div ImgPx(1))
         IN  << Corner(2 * x_center - width, size[1]),
                Corner(2 * y_center - height, size[2]),
                Corner(2 * x_center + width, size[1]),
                Corner(2 * y_center + height, size[2]) >>

\* ---- ZoomManager
ZM_can_zoom_in_keyboard(c) == AtMost(c.im.scale_factor, 11, 10, MAX_ZOOM_KEYBOARD)
\* scale_factor / ZOOM_INCREMENT_KEYBOARD >= MIN_ZOOM, for the wheel as well
ZM_can_zoom_out(c) == AtLeast(c.im.scale_factor, 10, 11, MIN_ZOOM)
ZM_can_zoom_in_mouse(c) == AtMost(c.im.scale_factor, 21, 20, MAX_ZOOM_MOUSE)

ZM__zoom_to_scale(c, new_scale, center_on_mouse) ==
    LET old == c.im.scale_factor
        mx == c.zm.last_mouse_x
        my == c.zm.last_mouse_y
        c1 == IF center_on_mouse /\ c.im.original_image # None
              THEN [c EXCEPT !.im.scale_factor = new_scale,
                             !.im.image_x = mx - MulDiv(mx - @, new_scale, old),
                             !.im.image_y = my - MulDiv(my - @, new_scale, old)]
              ELSE IF center_on_mouse
              \* canvas_to_image_coords without an image returns the canvas point
              THEN [c EXCEPT !.im.scale_factor = new_scale,
                             !.im.image_x = mx - MulDiv(mx, new_scale, Percent(100)),
                             !.im.image_y = my - MulDiv(my, new_scale, Percent(100))]
              ELSE [c EXCEPT !.im.scale_factor = new_scale]
    IN  [c1 EXCEPT !.ret = TRUE]

\* a debounce test that every wheel event passes
ZM__can_zoom_with_debouncing_NoCooldown(c, current_time) ==
    [c EXCEPT !.zm.last_zoom_time = current_time, !.ret = TRUE]

\* the test sets last_zoom_time when it passes
ZM__can_zoom_with_debouncing(c, current_time) ==
    IF current_time - c.zm.last_zoom_time >= ZOOM_COOLDOWN
    THEN [c EXCEPT !.zm.last_zoom_time = current_time, !.ret = TRUE]
    ELSE [c EXCEPT !.ret = FALSE]

ZM_zoom_in_keyboard(c) ==
    IF ~ZM_can_zoom_in_keyboard(c) \/ c.zm.drawing_box THEN [c EXCEPT !.ret = FALSE]
    ELSE ZM__zoom_to_scale(c, MulDiv(c.im.scale_factor, 11, 10), FALSE)

ZM_zoom_out_keyboard(c) ==
    IF ~ZM_can_zoom_out(c) \/ c.zm.drawing_box THEN [c EXCEPT !.ret = FALSE]
    ELSE ZM__zoom_to_scale(c, MulDiv(c.im.scale_factor, 10, 11), FALSE)

ZM_zoom_in_mouse(c, current_time) ==
    LET c1 == ZM__can_zoom_with_debouncing(c, current_time)
    IN  IF ~c1.ret \/ ~ZM_can_zoom_in_mouse(c1) \/ c1.zm.drawing_box
        THEN [c1 EXCEPT !.ret = FALSE]
        ELSE ZM__zoom_to_scale(c1, MulDiv(c1.im.scale_factor, 21, 20), TRUE)

ZM_zoom_out_mouse(c, current_time) ==
    LET c1 == ZM__can_zoom_with_debouncing(c, current_time)
    IN  IF ~c1.ret \/ ~ZM_can_zoom_out(c1) \/ c1.zm.drawing_box
        THEN [c1 EXCEPT !.ret = FALSE]
        ELSE ZM__zoom_to_scale(c1, MulDiv(c1.im.scale_factor, 20, 21), TRUE)

\* zoom_to_scale applying the scale as given
ZM_zoom_to_scale_Unclamped(c, scale, center_on_mouse) ==
    IF c.zm.drawing_box THEN [c EXCEPT !.ret = FALSE]
    ELSE ZM__zoom_to_scale(c, scale, center_on_mouse)

ZM_zoom_to_scale(c, scale, center_on_mouse) ==
    IF c.zm.drawing_box THEN [c EXCEPT !.ret = FALSE]
    ELSE ZM__zoom_to_scale(c, Max(MIN_ZOOM, Min(MAX_ZOOM_KEYBOARD, scale)),
                           center_on_mouse)

ZM_set_drawing_mode(c, drawing) == [c EXCEPT !.zm.drawing_box = drawing]
ZM_update_mouse_position(c, x, y) ==
    [c EXCEPT !.zm.last_mouse_x = Px(x), !.zm.last_mouse_y = Px(y)]
ZM_start_pan(c, x, y) ==
    [c EXCEPT !.zm.is_panning = TRUE, !.zm.pan_start_x = x, !.zm.pan_start_y = y]
ZM_update_pan(c, x, y) ==
    IF ~c.zm.is_panning THEN c
    ELSE LET dx == x - c.zm.pan_start_x
             dy == y - c.zm.pan_start_y
         IN  IF Abs(dx) > 1 \/ Abs(dy) > 1
             THEN [IM_move_image(c, dx, dy) EXCEPT !.moved = <<dx, dy>>,
                                                   !.zm.pan_start_x = x,
                                                   !.zm.pan_start_y = y]
             ELSE c
ZM_end_pan(c) ==
    [c EXCEPT !.zm.is_panning = FALSE, !.zm.pan_start_x = 0, !.zm.pan_start_y = 0]

\* ---- LabelManager
LM_clear_boxes(c) == [c EXCEPT !.lm.boxes = <<>>]
LM_add_box(c, x_center, y_center, width, height, class_id) ==
    [c EXCEPT !.lm.boxes = Append(@, Box(class_id, x_center, y_center, width, height))]
LM_remove_last_box(c) ==
    IF c.lm.boxes # <<>>
    THEN [c EXCEPT !.lm.boxes = SubSeq(@, 1, Len(@) - 1), !.ret = TRUE]
    ELSE [c EXCEPT !.ret = FALSE]

\* utils/file_utils.py get_label_file_path
get_label_file_path(image_path) == Stem(image_path)
\* utils/file_utils.py delete_file_if_exists
delete_file_if_exists(c, file_path) ==
    IF c.files[file_path].st # "absent"
    THEN [c EXCEPT !.files[file_path] = DeleteFile(@), !.ret = TRUE]
    ELSE [c EXCEPT !.ret = FALSE]

LM_load_labels(c, image_path) ==
    LET c1 == LM_clear_boxes(c)
    IN  IF image_path = None THEN [c1 EXCEPT !.ret = FALSE]
        ELSE LET f == c1.files[get_label_file_path(image_path)]
             IN  IF f.st = "absent" THEN [c1 EXCEPT !.ret = FALSE]
                 ELSE LET r == ReadLabelFile(f, c1.lm.boxes)
                      IN  [c1 EXCEPT !.lm.boxes = r.boxes, !.ret = ~r.raised]

LM_save_labels(c, image_path) ==
    IF image_path = None THEN [c EXCEPT !.ret = FALSE]
    ELSE LET label_path == get_label_file_path(image_path)
             r == WriteLabelFile(c.files[label_path], c.lm.boxes)
         IN  [c EXCEPT !.files[label_path] = r.file, !.ret = ~r.raised]

LM_delete_labels(c, image_path) ==
    IF image_path = None THEN [c EXCEPT !.ret = FALSE]
    ELSE delete_file_if_exists(c, get_label_file_path(image_path))


(***************************************************************************)
(* Inputs of the events.                                                   *)
(***************************************************************************)
Unlaid == <<1, 1>>
CanvasSizes == { <<800, 600>> }
\* the directories the dialog can return: smaller ones, and an empty one
Directories == { <<1, 3>>, <<2>>, <<>> }
PressPoints == { <<100, 100>> }
MovePoints == { <<104, 103>>, <<300, 200>> }
WheelPoints == { <<300, 200>>, <<-10, 50>> }
MotionPoints == { <<300, 200>> }
\* where the button is released: the points of a drag, and one 5 px to the
\* right of and 6 px below the press point
ReleasePoints == MovePoints \cup { <<105, 106>> }
\* canvas points handed to the coordinate conversions
CanvasPoints == PressPoints \cup MovePoints \cup WheelPoints
\* scales asked of ZoomManager.zoom_to_scale: the two presets, one below
\* MIN_ZOOM and one above MAX_ZOOM_KEYBOARD
\* corner pairs in image pixels: one rectangle drawn in its four diagonal
\* directions, one reaching outside the image, one of no width
CornerPairs ==
    { <<100, 100, 300, 200>>, <<300, 200, 100, 100>>, <<100, 200, 300, 100>>,
      <<300, 100, 100, 200>>, <<-10, 5, 33, 20>>, <<7, 3, 7, 29>> }
\* rectangles in image pixels whose corners fall on whole canvas pixels in
\* every view of TransformViews
ImageRects == { <<100, 100, 300, 200>>, <<20, 40, 60, 80>> }
\* views <<scale_factor, image_x, image_y>> left by zooming and panning
TransformViews ==
    { <<Percent(100), 0, 0>>, <<Percent(200), Px(40), Px(-30)>>,
      <<Percent(50), Px(-15), Px(20)>> }
ScaleRequests == { Percent(5), Percent(100), Percent(200), Percent(300) }

\* lines of label files found on disk
GoodLine1 == << Num(0, FALSE), Num(5000000, TRUE), Num(5000000, TRUE),
                Num(2000000, TRUE), Num(2000000, TRUE) >>
GoodLine2 == << Num(CoordUnit, FALSE), Num(1234567, TRUE), Num(2500000, TRUE),
                Num(1000000, TRUE), Num(1000000, TRUE) >>
ShortLine == << Num(0, FALSE), Num(5000000, TRUE), Num(5000000, TRUE),
                Num(2000000, TRUE) >>
GarbageLine == << Num(0, FALSE), Num(5000000, TRUE), BadTok,
                  Num(2000000, TRUE), Num(2000000, TRUE) >>
FilesOnDisk ==
    { Absent, Locked, TextFile(<<GoodLine1>>),
      TextFile(<<GoodLine1, ShortLine, GoodLine2>>),
      TextFile(<<GoodLine1, GarbageLine, GoodLine2>>) }
\* boxes handed to LabelManager.add_box
AddedBoxes ==
    { Box(DEFAULT_CLASS_ID, 3333333, 6666667, 1111115, 1999994) }

Range(f) == { f[i] : i \in DOMAIN f }
ViewOf(o) == <<o.scale_factor, o.image_x, o.image_y>>

(***************************************************************************)
(* Initial states: the application after __init__ and load_images_auto     *)
(* (the grid is shown), or the three managers after construction.          *)
(***************************************************************************)
InitCommon(apps, imgs) ==
    /\ app \in apps
    /\ images_dir = imgs
    /\ self = NewImageLabeler(imgs)
    /\ im = NewImageManager
    /\ zm = NewZoomManager
    /\ lm = NewLabelManager
    /\ view = "grid"
    /\ after = 0
    /\ button = FALSE
    /\ now = ZOOM_COOLDOWN
    /\ last_event = NoEvent

Init ==
    /\ InitCommon({"monolith", "managers"}, <<1, 3>>)
    /\ canvas \in CanvasSizes
    /\ budget = [view_ops |-> 0, boxes |-> MaxBoxes, history |-> TRUE]
    /\ \E fa \in FilesOnDisk :
          files = [s \in Stems |-> CASE s = "a" -> fa
                                     [] s = "c" -> TextFile(<<GoodLine1>>)
                                     [] OTHER -> Absent]

\* one image per directory: an image that fits the canvas at a scale within
\* the zoom limits, one too small for them and one too large
InitViewOf(apps) ==
    /\ \E i \in {1, 2, 4} : InitCommon(apps, <<i>>)
    /\ canvas = Unlaid
    /\ budget = [view_ops |-> MaxViewOps, boxes |-> 0, history |-> FALSE]
    /\ files = [s \in Stems |-> Absent]

InitView == InitViewOf({"monolith"})
InitCoreView == InitViewOf({"managers"})

(***************************************************************************)
(* Events of the monolith.  Step runs one handler to its end.              *)
(***************************************************************************)
Step(name, w, arg, spent) ==
    /\ self' = w.o
    /\ files' = w.files
    /\ after' = w.after
    /\ budget' = [budget EXCEPT !.view_ops = @ - spent]
    /\ last_event' = IF budget.history THEN Event(name, w.exc, ~w.exc, arg)
                      ELSE NoEvent
    /\ UNCHANGED <<app, images_dir, im, zm, lm>>

\* a handler that changes the view by a step spends one unit of the budget
Spent(w) == IF ViewOf(w.o) # ViewOf(self) THEN 1 ELSE 0
WithinBudget(w) == Spent(w) <= budget.view_ops

ShowGrid ==
    /\ app = "monolith" /\ view = "labeling" /\ ~button
    /\ Step("show_grid", show_grid(World), None, 0)
    /\ view' = "grid"
    /\ UNCHANGED <<canvas, button, now>>

\* a thumbnail button exists only for an image PIL could open (lines 178-191)
SelectImage ==
    /\ app = "monolith" /\ view = "grid"
    /\ \E i \in 0 .. Len(self.images) - 1 :
          /\ Decodable(self.images[i + 1])
          /\ Step("select_image", select_image(World, i, canvas), self.images[i + 1], 0)
    /\ view' = "labeling"
    /\ UNCHANGED <<canvas, button, now>>

NextImage ==
    /\ app = "monolith"
    /\ Step("next_image", next_image(World, canvas), None, 0)
    /\ UNCHANGED <<canvas, view, button, now>>

PrevImage ==
    /\ app = "monolith"
    /\ Step("prev_image", prev_image(World, canvas), None, 0)
    /\ UNCHANGED <<canvas, view, button, now>>

MousePress ==
    /\ app = "monolith" /\ view = "labeling" /\ ~button
    /\ \E p \in PressPoints, ctrl \in BOOLEAN :
          Step(IF ctrl THEN "press_draw" ELSE "press_pan",
               start_pan_or_draw(World, p[1], p[2], ctrl), None, 0)
    /\ button' = TRUE
    /\ UNCHANGED <<canvas, view, now>>

MouseDrag ==
    /\ app = "monolith" /\ view = "labeling" /\ button
    /\ \E p \in MovePoints :
          LET w == pan_or_draw(World, p[1], p[2])
          IN  /\ WithinBudget(w)
              /\ Step("drag", w, None, Spent(w))
    /\ UNCHANGED <<canvas, view, button, now>>

\* what the release did: a box was appended (or its save raised), the drag was
\* too small for a box, or a pan ended
ReleaseName(w) ==
    IF ~self.rect THEN "release_pan"
    ELSE IF w.exc \/ Len(w.o.boxes) > Len(self.boxes) THEN "release_add"
    ELSE "release_small"

MouseRelease ==
    /\ app = "monolith" /\ view = "labeling" /\ button
    /\ \E p \in ReleasePoints :
          LET w == end_pan_or_draw(World, p[1], p[2])
          IN  /\ Len(w.o.boxes) <= budget.boxes
              /\ w.o.box_rects <= MaxRects
              /\ Step(ReleaseName(w), w, None, 0)
    /\ button' = FALSE
    /\ UNCHANGED <<canvas, view, now>>

MouseMotion ==
    /\ app = "monolith" /\ view = "labeling" /\ ~button
    /\ \E p \in MotionPoints :
          Step("motion", on_mouse_motion(World, p[1], p[2]), None, 0)
    /\ UNCHANGED <<canvas, view, button, now>>

UndoBox ==
    /\ app = "monolith"
    /\ Step("undo_box", undo_box(World), None, 0)
    /\ UNCHANGED <<canvas, view, button, now>>

ClearLabels ==
    /\ app = "monolith"
    /\ Step("clear_labels", clear_labels(World),
            IF self.image_path # None /\ files[LabelPath(self)].st # "absent"
            THEN 1 ELSE 0, 0)
    /\ UNCHANGED <<canvas, view, button, now>>

\* the menu command; the grid is shown when the directory holds an image
OpenDirectory ==
    /\ app = "monolith" /\ ~button
    /\ \E chosen \in BOOLEAN, dir \in Directories :
          /\ Step("load_images", load_images(World, chosen, dir), None, 0)
          /\ view' = IF chosen /\ dir # <<>> THEN "grid" ELSE view
    /\ UNCHANGED <<canvas, button, now>>

ZoomIn ==
    /\ app = "monolith"
    /\ LET w == zoom_in(World, canvas)
       IN  WithinBudget(w) /\ Step("zoom_in", w, None, Spent(w))
    /\ UNCHANGED <<canvas, view, button, now>>

ZoomOut ==
    /\ app = "monolith"
    /\ LET w == zoom_out(World, canvas)
       IN  WithinBudget(w) /\ Step("zoom_out", w, None, Spent(w))
    /\ UNCHANGED <<canvas, view, button, now>>

WheelZoom ==
    /\ app = "monolith" /\ view = "labeling"
    /\ \E p \in WheelPoints, up \in BOOLEAN :
          LET w == on_zoom_mousewheel(World, canvas, p[1], p[2], up, now)
          IN  WithinBudget(w) /\ Step("wheel", w, None, Spent(w))
    /\ UNCHANGED <<canvas, view, button, now>>

ZoomTo100 ==
    /\ app = "monolith"
    /\ Step("zoom_to_100", zoom_to_100(World, canvas), None, 0)
    /\ UNCHANGED <<canvas, view, button, now>>

ZoomTo200 ==
    /\ app = "monolith"
    /\ Step("zoom_to_200", zoom_to_200(World, canvas), None, 0)
    /\ UNCHANGED <<canvas, view, button, now>>

ZoomToFit ==
    /\ app = "monolith"
    /\ Step("zoom_to_fit", zoom_to_fit(World, canvas), None, 0)
    /\ UNCHANGED <<canvas, view, button, now>>

\* root.after(100, self.scale_image_to_fit) comes due
AfterCallback ==
    /\ app = "monolith" /\ after > 0
    /\ Step("after_fit", scale_image_to_fit([World EXCEPT !.after = @ - 1], canvas),
            None, 0)
    /\ UNCHANGED <<canvas, view, button, now>>

\* the window manager lays the canvas out
CanvasConfigure ==
    /\ view = "labeling" \/ app = "managers"
    /\ \E cv \in CanvasSizes : cv # canvas /\ canvas' = cv
    /\ UNCHANGED <<app, images_dir, self, im, zm, lm, files, view, after, button,
                   now, budget, last_event>>

\* time passes; once the cooldown of the last wheel zoom is over, more time
\* changes nothing
Tick ==
    /\ now < MaxTime
    /\ now - (IF app = "monolith" THEN self.last_zoom_time ELSE zm.last_zoom_time)
          < ZOOM_COOLDOWN
    /\ now' = now + 1
    /\ UNCHANGED <<app, images_dir, self, im, zm, lm, files, canvas, view, after,
                   button, budget, last_event>>


(***************************************************************************)
(* Calls of the managers of src/core.  CoreStep runs one method.           *)
(***************************************************************************)
CoreStep(name, c, arg, spent) ==
    /\ im' = c.im
    /\ zm' = c.zm
    /\ lm' = c.lm
    /\ files' = c.files
    /\ budget' = [budget EXCEPT !.view_ops = @ - spent]
    /\ last_event' = IF budget.history THEN Event(name, FALSE, c.ret, arg)
                      ELSE NoEvent
    /\ UNCHANGED <<app, images_dir, self, canvas, view, after, button, now>>

CoreViewOf(m) == <<m.scale_factor, m.image_x, m.image_y>>
CoreSpent(c) == IF CoreViewOf(c.im) # CoreViewOf(im) THEN 1 ELSE 0
Paths == Range(images_dir) \cup {None}

AddBox ==
    /\ app = "managers" /\ Len(lm.boxes) < budget.boxes
    /\ \E b \in AddedBoxes :
          CoreStep("add_box",
                   LM_add_box(Core, b.x_center, b.y_center, b.width, b.height,
                              b.class_id), None, 0)

RemoveLastBox ==
    /\ app = "managers"
    /\ CoreStep("remove_last_box", LM_remove_last_box(Core), None, 0)

ClearBoxes ==
    /\ app = "managers"
    /\ CoreStep("clear_boxes", LM_clear_boxes(Core), None, 0)

LoadLabels ==
    /\ app = "managers"
    /\ \E p \in Paths : CoreStep("load_labels", LM_load_labels(Core, p), p, 0)

SaveLabels ==
    /\ app = "managers"
    /\ \E p \in Paths : CoreStep("save_labels", LM_save_labels(Core, p), p, 0)

DeleteLabels ==
    /\ app = "managers"
    /\ \E p \in Paths : CoreStep("delete_labels", LM_delete_labels(Core, p), p, 0)

LoadImage ==
    /\ app = "managers"
    /\ \E p \in Range(images_dir) :
          CoreStep("load_image", IM_load_image(Core, p), p, 0)

FitToCanvas ==
    /\ app = "managers"
    /\ CoreStep("fit_to_canvas", IM_fit_to_canvas(Core, canvas), None, 0)

DisplayOnCanvas ==
    /\ app = "managers"
    /\ CoreStep("display_on_canvas", IM_display_on_canvas(Core), None, 0)

KeyboardZoomIn ==
    /\ app = "managers"
    /\ LET c == ZM_zoom_in_keyboard(Core)
       IN  CoreSpent(c) <= budget.view_ops /\ CoreStep("zoom_in_keyboard", c, None, CoreSpent(c))

KeyboardZoomOut ==
    /\ app = "managers"
    /\ LET c == ZM_zoom_out_keyboard(Core)
       IN  CoreSpent(c) <= budget.view_ops /\ CoreStep("zoom_out_keyboard", c, None, CoreSpent(c))

MouseZoomIn ==
    /\ app = "managers"
    /\ LET c == ZM_zoom_in_mouse(Core, now)
       IN  CoreSpent(c) <= budget.view_ops /\ CoreStep("zoom_in_mouse", c, None, CoreSpent(c))

MouseZoomOut ==
    /\ app = "managers"
    /\ LET c == ZM_zoom_out_mouse(Core, now)
       IN  CoreSpent(c) <= budget.view_ops /\ CoreStep("zoom_out_mouse", c, None, CoreSpent(c))

ZoomToScale ==
    /\ app = "managers"
    /\ \E s \in ScaleRequests :
          CoreStep("zoom_to_scale", ZM_zoom_to_scale(Core, s, FALSE), s, 0)

SetDrawingMode ==
    /\ app = "managers"
    /\ \E d \in BOOLEAN : d # zm.drawing_box
          /\ CoreStep("set_drawing_mode", ZM_set_drawing_mode(Core, d), None, 0)

UpdateMousePosition ==
    /\ app = "managers"
    /\ \E p \in MotionPoints :
          CoreStep("update_mouse_position",
                   ZM_update_mouse_position(Core, p[1], p[2]), None, 0)

StartPan ==
    /\ app = "managers" /\ ~zm.is_panning
    /\ \E p \in PressPoints : CoreStep("start_pan", ZM_start_pan(Core, p[1], p[2]), None, 0)

UpdatePan ==
    /\ app = "managers"
    /\ \E p \in MovePoints :
          LET c == ZM_update_pan(Core, p[1], p[2])
          IN  CoreSpent(c) <= budget.view_ops /\ CoreStep("update_pan", c, None, CoreSpent(c))

EndPan ==
    /\ app = "managers" /\ zm.is_panning
    /\ CoreStep("end_pan", ZM_end_pan(Core), None, 0)

(***************************************************************************)
(* Specifications over the same actions.  Spec exercises the box           *)
(* list and the label files of both implementations; ViewSpec exercises    *)
(* the view (zoom, pan, fit) of main.py and CoreViewSpec that of src/core. *)
(***************************************************************************)
Navigate == ShowGrid \/ SelectImage \/ NextImage \/ PrevImage
Pointer == MousePress \/ MouseDrag \/ MouseRelease
Environment == CanvasConfigure \/ AfterCallback

Next ==
    \/ Navigate \/ Pointer
    \/ UndoBox \/ ClearLabels
    \/ AddBox \/ RemoveLastBox \/ ClearBoxes
    \/ LoadLabels \/ SaveLabels \/ DeleteLabels

Spec == Init /\ [][Next]_vars

NextView ==
    \/ Navigate \/ Pointer \/ Environment \/ Tick
    \/ MouseMotion \/ ZoomIn \/ ZoomOut \/ WheelZoom
    \/ ZoomTo100 \/ ZoomTo200 \/ ZoomToFit

ViewSpec == InitView /\ [][NextView]_vars

NextCoreView ==
    \/ CanvasConfigure \/ Tick
    \/ LoadImage \/ FitToCanvas \/ DisplayOnCanvas
    \/ KeyboardZoomIn \/ KeyboardZoomOut \/ MouseZoomIn \/ MouseZoomOut
    \/ ZoomToScale \/ SetDrawingMode \/ UpdateMousePosition
    \/ StartPan \/ UpdatePan \/ EndPan

CoreViewSpec == InitCoreView /\ [][NextCoreView]_vars

(***************************************************************************)
(* The same actions on a directory that holds one picture in two formats,  *)
(* a.png and a.jpg.                                                        *)
(***************************************************************************)
InitSharedStem ==
    /\ InitCommon({"monolith", "managers"}, <<1, 4>>)
    /\ canvas \in CanvasSizes
    /\ budget = [view_ops |-> 0, boxes |-> MaxBoxes, history |-> TRUE]
    /\ \E fa \in {Absent, TextFile(<<GoodLine1>>)} :
          files = [s \in Stems |-> IF s = "a" THEN fa ELSE Absent]

SharedStemSpec == InitSharedStem /\ [][Next]_vars

(***************************************************************************)
(* Navigation across directories: the application starts on a directory of *)
(* three images and the user opens other directories from the menu.        *)
(***************************************************************************)
InitDirectory ==
    /\ InitCommon({"monolith"}, <<1, 2, 3>>)
    /\ canvas \in CanvasSizes
    /\ budget = [view_ops |-> 0, boxes |-> 0, history |-> TRUE]
    /\ \E fa \in {Absent, TextFile(<<GoodLine1>>)} :
          files = [s \in Stems |-> IF s = "a" THEN fa ELSE Absent]

DirectorySpec == InitDirectory /\ [][Navigate \/ OpenDirectory]_vars

(***************************************************************************)
(* The coordinate conversions on their own.  An image is shown in one of   *)
(* the views of TransformViews; src/core's conversions are called on the   *)
(* inputs above and their results recorded, and main.py draws boxes.       *)
(***************************************************************************)
InitTransform ==
    /\ app \in {"monolith", "managers"}
    /\ \E i \in {1, 2, 4}, v \in TransformViews :
          /\ images_dir = <<i>>
          /\ self = [NewImageLabeler(<<i>>) EXCEPT
                        !.image_path = i, !.original_image = i,
                        !.image_canvas_id = TRUE, !.scale_factor = v[1],
                        !.image_x = v[2], !.image_y = v[3]]
          /\ im = [NewImageManager EXCEPT
                      !.original_image = i, !.image_canvas_id = TRUE,
                      !.scale_factor = v[1], !.image_x = v[2], !.image_y = v[3]]
    /\ zm = NewZoomManager
    /\ lm = NewLabelManager
    /\ files = [st \in Stems |-> Absent]
    /\ canvas \in CanvasSizes
    /\ view = "labeling"
    /\ after = 0
    /\ button = FALSE
    /\ now = ZOOM_COOLDOWN
    /\ budget = [view_ops |-> 0, boxes |-> MaxBoxes, history |-> TRUE]
    /\ last_event = NoEvent

\* a call of a conversion: nothing but the record of the call changes
Called(name, result, arg) ==
    /\ last_event' = Event(name, FALSE, result, arg)
    /\ UNCHANGED <<app, images_dir, self, im, zm, lm, files, canvas, view, after,
                   button, now, budget>>

CanvasToImageCoords ==
    /\ app = "managers"
    /\ \E p \in CanvasPoints :
           Called("canvas_to_image_coords",
                  IM_canvas_to_image_coords(im, Px(p[1]), Px(p[2])), p)

ImageToCanvasCoords ==
    /\ app = "managers"
    /\ \E r \in ImageRects :
           Called("image_to_canvas_coords",
                  IM_image_to_canvas_coords(im, ImgPx(r[1]), ImgPx(r[2])), r)

NormalizeCoordinates ==
    /\ app = "managers"
    /\ \E r \in CornerPairs :
           Called("normalize_coordinates",
                  IM_normalize_coordinates(im, ImgPx(r[1]), ImgPx(r[2]),
                                           ImgPx(r[3]), ImgPx(r[4])), r)

DenormalizeCoordinates ==
    /\ app = "managers"
    /\ \E r \in CornerPairs :
           LET n == IM_normalize_coordinates(im, ImgPx(r[1]), ImgPx(r[2]),
                                             ImgPx(r[3]), ImgPx(r[4]))
           IN  Called("denormalize_coordinates",
                      IM_denormalize_coordinates(im, n[1], n[2], n[3], n[4]), r)

NextTransform ==
    \/ Pointer
    \/ CanvasToImageCoords \/ ImageToCanvasCoords
    \/ NormalizeCoordinates \/ DenormalizeCoordinates

TransformSpec == InitTransform /\ [][NextTransform]_vars


(***************************************************************************)
(* Properties.                                                             *)
(***************************************************************************)
\* the label file of main.py's active image
ActiveFile == files[LabelPath(self)]
\* two boxes with the same class and the same coordinates to 6 decimal places
SameBox(a, b) ==
    /\ a.class_id.v = b.class_id.v
    /\ Round6(a.x_center) = Round6(b.x_center)
    /\ Round6(a.y_center) = Round6(b.y_center)
    /\ Round6(a.width) = Round6(b.width)
    /\ Round6(a.height) = Round6(b.height)
SameBoxes(as, bs) ==
    /\ Len(as) = Len(bs)
    /\ \A i \in 1 .. Len(as) : SameBox(as[i], bs[i])
\* 1e-6
Tolerance == CoordUnit \div 10 ^ COORDINATE_PRECISION
CloseBox(a, b) ==
    /\ a.class_id.v = b.class_id.v
    /\ Abs(a.x_center - b.x_center) <= Tolerance
    /\ Abs(a.y_center - b.y_center) <= Tolerance
    /\ Abs(a.width - b.width) <= Tolerance
    /\ Abs(a.height - b.height) <= Tolerance
CloseBoxes(as, bs) ==
    /\ Len(as) = Len(bs)
    /\ \A i \in 1 .. Len(as) : CloseBox(as[i], bs[i])
\* the boxes of the conforming lines of a file, in file order
RECURSIVE ConformingBoxes(_)
ConformingBoxes(lines) ==
    IF lines = <<>> THEN <<>>
    ELSE IF Len(Head(lines)) = 5 /\ ~LineRaises(Head(lines))
         THEN <<ParseLine(Head(lines))>> \o ConformingBoxes(Tail(lines))
         ELSE ConformingBoxes(Tail(lines))
\* main.py ran load_boxes to its end in the last event
MainLoaded ==
    /\ app = "monolith"
    /\ last_event.name \in {"select_image", "next_image", "prev_image"}
    /\ ~last_event.exc
CoreLoaded == app = "managers" /\ last_event.name = "load_labels"
CoreLoadedFile == files[get_label_file_path(last_event.arg)]

(* C3: in main.py, after a box was drawn and accepted, after undo and after *)
(* clear, when the handler returned and an image is active, loading the     *)
(* label file yields the in-memory list (same length and order, classes     *)
(* equal, coordinates equal to 6 decimal places); after clear the list is   *)
(* empty and no label file remains.                                         *)
C3_FileMatchesMemory ==
    ( /\ app = "monolith"
      /\ last_event.name \in {"release_add", "undo_box", "clear_labels"}
      /\ ~last_event.exc
      /\ self.image_path # None )
    => /\ SameBoxes(ReadLabelFile(ActiveFile, <<>>).boxes, self.boxes)
       /\ last_event.name = "clear_labels"
             => self.boxes = <<>> /\ ActiveFile.st = "absent"

(* C4: undo on an empty list leaves it empty (and returns false); on a list *)
(* of N >= 1 boxes it leaves the first N-1 boxes in order (and returns      *)
(* true), whether the boxes were drawn or loaded.                           *)
C4_UndoRemovesLast ==
    [][ /\ (app = "monolith" /\ last_event'.name = "undo_box")
            => self'.boxes = IF self.boxes = <<>> THEN <<>>
                             ELSE SubSeq(self.boxes, 1, Len(self.boxes) - 1)
        /\ (app = "managers" /\ last_event'.name = "remove_last_box")
            => /\ lm'.boxes = IF lm.boxes = <<>> THEN <<>>
                              ELSE SubSeq(lm.boxes, 1, Len(lm.boxes) - 1)
               /\ last_event'.ret = (lm.boxes # <<>>) ]_vars

(* C5: save followed by load of the same image reproduces the box list:     *)
(* same length, order and class ids, every coordinate within 1e-6.  For     *)
(* src/core, a load_labels that follows a successful save_labels of the     *)
(* same path; for main.py, what load reads from what save writes, for       *)
(* every box list the program holds.                                        *)
C5_SaveThenLoad ==
    [][ /\ ( /\ app = "managers"
             /\ last_event.name = "save_labels" /\ last_event.ret
             /\ last_event'.name = "load_labels"
             /\ last_event'.arg = last_event.arg )
            => last_event'.ret /\ CloseBoxes(lm'.boxes, lm.boxes)
        /\ app = "monolith"
            => LET written == WriteLabelFile(Absent, self'.boxes)
                   read == ReadLabelFile(written.file, <<>>)
               IN  ~read.raised /\ CloseBoxes(read.boxes, self'.boxes) ]_vars

\* a box whose coordinates have a 7th decimal came back from the file rounded
C5_Witness ==
    /\ app = "managers" /\ last_event.name = "load_labels" /\ last_event.ret
    /\ Len(lm.boxes) = 2
    /\ \E b \in AddedBoxes :
          /\ Round6(b.x_center) # b.x_center
          /\ lm.boxes[2].x_center = Round6(b.x_center)


(* C6: load skips every non-conforming line and loads every conforming      *)
(* line, also those after a non-conforming one, in file order: after a      *)
(* load of a readable file the list is the boxes of its conforming lines.   *)
C6_BadLinesSkippedOneByOne ==
    /\ (MainLoaded /\ ActiveFile.st = "file")
          => self.boxes = ConformingBoxes(ActiveFile.lines)
    /\ (CoreLoaded /\ last_event.arg # None /\ CoreLoadedFile.st = "file")
          => lm.boxes = ConformingBoxes(CoreLoadedFile.lines)

(* C7: when loading a label file fails (the file cannot be read, or an      *)
(* error is raised while parsing it), the box list is empty afterwards.     *)
C7_FailedLoadLeavesNoBoxes ==
    /\ (MainLoaded /\ ReadLabelFile(ActiveFile, <<>>).raised)
          => self.boxes = <<>>
    /\ (CoreLoaded /\ last_event.arg # None
          /\ ReadLabelFile(CoreLoadedFile, <<>>).raised)
          => lm.boxes = <<>>

(* C8: load replaces the list wholesale: whatever the store held before,    *)
(* after load(p) it holds exactly the boxes of p's label file; with no      *)
(* label file, or with an empty path, the list is empty and load returns    *)
(* false ("nothing loaded").                                                *)
C8_LoadReplacesWholesale ==
    [][ /\ (CoreLoaded' /\ last_event'.arg = None)
            => lm'.boxes = <<>> /\ ~last_event'.ret
        /\ (CoreLoaded' /\ last_event'.arg # None)
            => LET f == files[get_label_file_path(last_event'.arg)]
               IN  /\ f.st = "absent" => lm'.boxes = <<>> /\ ~last_event'.ret
                   /\ f.st = "file" => lm'.boxes = ConformingBoxes(f.lines)
        /\ MainLoaded'
            => LET f == files[LabelPath(self')]
               IN  /\ f.st = "absent" => self'.boxes = <<>>
                   /\ f.st = "file" => self'.boxes = ConformingBoxes(f.lines) ]_vars

C10_BoxesOfTheNewImage ==
    ( /\ app = "monolith"
      /\ last_event.name \in {"select_image", "next_image", "prev_image"}
      /\ self.image_path # None )
    => self.boxes = ReadLabelFile(ActiveFile, <<>>).boxes

(* C1: while a draw-session is active, no event changes the view: scale and *)
(* origin are the same after every event that arrives between the draw      *)
(* press and its release.                                                   *)
C1_DrawSessionFreezesView ==
    [][ (app = "monolith" /\ self.drawing_box /\ self'.drawing_box)
            => ViewOf(self') = ViewOf(self) ]_vars

(* C2: in every state with an image loaded the scale lies within            *)
(* [MIN_ZOOM, MAX_ZOOM].                                                    *)
C2_ScaleWithinLimits ==
    /\ (app = "monolith" /\ self.original_image # None)
          => MIN_ZOOM <= self.scale_factor /\ self.scale_factor <= MAX_ZOOM_KEYBOARD
    /\ (app = "managers" /\ im.original_image # None)
          => MIN_ZOOM <= im.scale_factor /\ im.scale_factor <= MAX_ZOOM_KEYBOARD


(***************************************************************************)
(* The zoom contract.  A scale is stored to 1/1000: a result is the        *)
(* product asked for when no other stored value is nearer to it.           *)
(***************************************************************************)
\* to is scale * n / d, to the resolution of a stored scale
ScaledBy(scale, n, d, to) == to # scale /\ Abs(scale * n - to * d) <= d

\* what the contract asks of a step zoom: the step is taken exactly when the
\* product stays within the limit, and is a no-op otherwise
StepZoomContract(scale, n, d, within, to) ==
    IF within THEN ScaledBy(scale, n, d, to) ELSE to = scale

(* C11: outside a draw-session, the keyboard zoom-in sets the scale to     *)
(* scale * 1.1 exactly when scale * 1.1 <= MAX_ZOOM_KEYBOARD and the        *)
(* keyboard zoom-out sets it to scale / 1.1 exactly when                    *)
(* scale / 1.1 >= MIN_ZOOM; otherwise the scale is unchanged.               *)
C11_KeyboardZoomWithinLimits ==
    /\ (app = "monolith" /\ ~self.drawing_box) =>
          LET s == self.scale_factor
          IN  /\ StepZoomContract(s, 11, 10, AtMost(s, 11, 10, MAX_ZOOM_KEYBOARD),
                                  zoom_in(World, canvas).o.scale_factor)
              /\ StepZoomContract(s, 10, 11, AtLeast(s, 10, 11, MIN_ZOOM),
                                  zoom_out(World, canvas).o.scale_factor)
    /\ (app = "managers" /\ ~zm.drawing_box) =>
          LET s == im.scale_factor
          IN  /\ StepZoomContract(s, 11, 10, AtMost(s, 11, 10, MAX_ZOOM_KEYBOARD),
                                  ZM_zoom_in_keyboard(Core).im.scale_factor)
              /\ StepZoomContract(s, 10, 11, AtLeast(s, 10, 11, MIN_ZOOM),
                                  ZM_zoom_out_keyboard(Core).im.scale_factor)


\* the scales the zoom requests of main.py would leave, in the current state
ZoomRequests ==
    { zoom_in(World, canvas).o.scale_factor,
      zoom_out(World, canvas).o.scale_factor,
      zoom_to_100(World, canvas).o.scale_factor,
      zoom_to_200(World, canvas).o.scale_factor,
      zoom_to_fit(World, canvas).o.scale_factor }
    \cup { on_zoom_mousewheel(World, canvas, p[1], p[2], up, now).o.scale_factor :
              p \in WheelPoints, up \in BOOLEAN }
\* the same for the ZoomManager of src/core in the world c
CoreZoomRequests(c) ==
    { ZM_zoom_in_keyboard(c).im.scale_factor,
      ZM_zoom_out_keyboard(c).im.scale_factor,
      ZM_zoom_in_mouse(c, now).im.scale_factor,
      ZM_zoom_out_mouse(c, now).im.scale_factor,
      ZM_zoom_to_scale(c, Percent(100), FALSE).im.scale_factor,
      ZM_zoom_to_scale(c, Percent(200), FALSE).im.scale_factor }

(* C12: a zoom request issued during a draw-session leaves the scale as it *)
(* was, and once the draw-session is exited (the pointer is released; for   *)
(* src/core, the drawing mode is switched off) a zoom request within the    *)
(* limits is accepted again.                                                *)
C12_ZoomLockEndsWithDrawSession ==
    /\ app = "monolith" =>
          /\ self.drawing_box => ZoomRequests = {self.scale_factor}
          /\ (~button /\ AtMost(self.scale_factor, 11, 10, MAX_ZOOM_KEYBOARD))
                => zoom_in(World, canvas).o.scale_factor # self.scale_factor
    /\ app = "managers" =>
          /\ zm.drawing_box => CoreZoomRequests(Core) = {im.scale_factor}
          /\ AtMost(im.scale_factor, 11, 10, MAX_ZOOM_KEYBOARD)
                => ZM_zoom_in_keyboard(ZM_set_drawing_mode(Core, FALSE)).im.scale_factor
                      # im.scale_factor


(* C13: outside a draw-session and outside the cooldown, the wheel zoom-out *)
(* is accepted exactly when scale / 1.05 >= MIN_ZOOM and the wheel zoom-in  *)
(* exactly when scale * 1.05 <= MAX_ZOOM_MOUSE, and the accepted result is  *)
(* scale / 1.05 resp. scale * 1.05.                                         *)
C13_WheelZoomWithinLimits ==
    /\ (/\ app = "monolith" /\ ~self.drawing_box
        /\ now - self.last_zoom_time >= ZOOM_COOLDOWN) =>
          LET s == self.scale_factor
          IN  \A p \in WheelPoints :
                /\ StepZoomContract(s, 21, 20, AtMost(s, 21, 20, MAX_ZOOM_MOUSE),
                       on_zoom_mousewheel(World, canvas, p[1], p[2], TRUE, now)
                           .o.scale_factor)
                /\ StepZoomContract(s, 20, 21, AtLeast(s, 20, 21, MIN_ZOOM),
                       on_zoom_mousewheel(World, canvas, p[1], p[2], FALSE, now)
                           .o.scale_factor)
    /\ (/\ app = "managers" /\ ~zm.drawing_box
        /\ now - zm.last_zoom_time >= ZOOM_COOLDOWN) =>
          LET s == im.scale_factor
          IN  /\ StepZoomContract(s, 21, 20, AtMost(s, 21, 20, MAX_ZOOM_MOUSE),
                                  ZM_zoom_in_mouse(Core, now).im.scale_factor)
              /\ StepZoomContract(s, 20, 21, AtLeast(s, 20, 21, MIN_ZOOM),
                                  ZM_zoom_out_mouse(Core, now).im.scale_factor)


(* C14: a wheel zoom arriving less than ZOOM_COOLDOWN after the last        *)
(* accepted wheel zoom changes neither scale, origin nor the cooldown       *)
(* timestamp; an accepted wheel zoom arrives outside the cooldown and       *)
(* restarts it, so two accepted wheel zooms are at least ZOOM_COOLDOWN      *)
(* apart.                                                                   *)
C14_WheelCooldown ==
    /\ app = "monolith" =>
          /\ self.last_zoom_time <= now
          /\ \A p \in WheelPoints, up \in BOOLEAN :
                LET o == on_zoom_mousewheel(World, canvas, p[1], p[2], up, now).o
                IN  /\ now - self.last_zoom_time < ZOOM_COOLDOWN
                          => /\ ViewOf(o) = ViewOf(self)
                             /\ o.last_zoom_time = self.last_zoom_time
                    /\ o.scale_factor # self.scale_factor
                          => /\ now - self.last_zoom_time >= ZOOM_COOLDOWN
                             /\ o.last_zoom_time = now
    /\ app = "managers" =>
          /\ zm.last_zoom_time <= now
          /\ \A up \in BOOLEAN :
                LET c == IF up THEN ZM_zoom_in_mouse(Core, now)
                         ELSE ZM_zoom_out_mouse(Core, now)
                IN  /\ now - zm.last_zoom_time < ZOOM_COOLDOWN
                          => ~c.ret /\ c.im = im /\ c.zm = zm
                    /\ c.ret
                          => /\ now - zm.last_zoom_time >= ZOOM_COOLDOWN
                             /\ c.zm.last_zoom_time = now

\* a wheel zoom-in from scale 1.0 was accepted less than ZOOM_COOLDOWN ago,
\* and another one would be within the limits and outside a draw-session
C14_Witness ==
    /\ app = "managers" /\ ~zm.drawing_box
    /\ im.scale_factor = MulDiv(Percent(100), 21, 20)
    /\ zm.last_zoom_time > 0
    /\ now - zm.last_zoom_time < ZOOM_COOLDOWN


\* the canvas position of the image's top-left corner
OriginOf(m) == <<m.image_x, m.image_y>>

(* C15: outside a draw-session zoomToScale(s) sets the scale to s clamped   *)
(* into [MIN_ZOOM, MAX_ZOOM_KEYBOARD], and a zoom that does not centre on   *)
(* a focal point (the 100% and 200% actions, the keyboard zoom) leaves the  *)
(* origin unchanged.                                                        *)
C15_ZoomToScaleClampsAndKeepsOrigin ==
    /\ (app = "managers" /\ ~zm.drawing_box) =>
          /\ \A s \in ScaleRequests :
                LET c == ZM_zoom_to_scale(Core, s, FALSE)
                IN  /\ c.ret
                    /\ c.im.scale_factor
                          = (IF s < MIN_ZOOM THEN MIN_ZOOM
                             ELSE IF s > MAX_ZOOM_KEYBOARD THEN MAX_ZOOM_KEYBOARD
                             ELSE s)
                    /\ OriginOf(c.im) = OriginOf(im)
          /\ OriginOf(ZM_zoom_in_keyboard(Core).im) = OriginOf(im)
          /\ OriginOf(ZM_zoom_out_keyboard(Core).im) = OriginOf(im)
    /\ (app = "monolith" /\ ~self.drawing_box) =>
          /\ zoom_to_100(World, canvas).o.scale_factor = Percent(100)
          /\ zoom_to_200(World, canvas).o.scale_factor = Percent(200)
          /\ \A o \in { zoom_to_100(World, canvas).o, zoom_to_200(World, canvas).o,
                         zoom_in(World, canvas).o, zoom_out(World, canvas).o } :
                OriginOf(o) = OriginOf(self)

\* an image fitted and centred away from the canvas corner, then a request
\* below MIN_ZOOM: the scale is the minimum and the origin is where it was
C15_Witness ==
    /\ app = "managers" /\ ~zm.drawing_box
    /\ im.original_image # None
    /\ im.scale_factor = MIN_ZOOM
    /\ im.image_x > 0


(***************************************************************************)
(* The coordinate transform.  toImageCoords is (canvas - origin) / scale;  *)
(* two image-space points given as quotients are compared by cross         *)
(* multiplication, to the resolution of a stored canvas position.          *)
(***************************************************************************)
\* the image-space coordinate under canvas coordinate f is the same in the
\* view (scale, origin) as in the view (scale2, origin2)
SameImagePoint(f, scale, origin, scale2, origin2) ==
    Abs((f - origin2) * scale - (f - origin) * scale2) <= scale
\* the same in both axes, for views <<scale, image_x, image_y>>
FocalPointKept(fx, fy, v, v2) ==
    /\ SameImagePoint(fx, v[1], v[2], v2[1], v2[2])
    /\ SameImagePoint(fy, v[1], v[3], v2[1], v2[3])

(* C16: for every accepted wheel zoom with the pointer at canvas point F,   *)
(* the image-space point under F before the zoom is the image-space point   *)
(* under F after it, for any scale, origin and pointer position.  For       *)
(* main.py the wheel is bound in the labeling view, and the canvas is taken *)
(* as laid out.                                                             *)
C16_FocalPointInvariance ==
    /\ (app = "monolith" /\ view = "labeling" /\ canvas \in CanvasSizes) =>
          \A p \in WheelPoints, up \in BOOLEAN :
              LET o == on_zoom_mousewheel(World, canvas, p[1], p[2], up, now).o
              IN  o.scale_factor # self.scale_factor
                    => FocalPointKept(Px(p[1]), Px(p[2]), ViewOf(self), ViewOf(o))
    /\ (app = "managers" /\ im.original_image # None) =>
          \A p \in WheelPoints, up \in BOOLEAN :
              LET c0 == ZM_update_mouse_position(Core, p[1], p[2])
                  c == IF up THEN ZM_zoom_in_mouse(c0, now)
                       ELSE ZM_zoom_out_mouse(c0, now)
              IN  c.ret => FocalPointKept(Px(p[1]), Px(p[2]),
                                          CoreViewOf(im), CoreViewOf(c.im))


(* C17: in every state with scale > 0, whether or not an image is loaded,   *)
(* toCanvasCoords(toImageCoords(P)) = P for every canvas point P (to the    *)
(* resolution of a stored canvas position).                                 *)
C17_CanvasImageRoundTrip ==
    (app = "managers" /\ im.scale_factor > 0) =>
        \A p \in CanvasPoints :
            LET i == IM_canvas_to_image_coords(im, Px(p[1]), Px(p[2]))
                q == IM_image_to_canvas_coords(im, i[1], i[2])
            IN  Abs(q[1] - Px(p[1])) <= 1 /\ Abs(q[2] - Px(p[2])) <= 1


\* normalize_coordinates of a corner pair given in image pixels
NormalizedOf(m, r) ==
    IM_normalize_coordinates(m, ImgPx(r[1]), ImgPx(r[2]), ImgPx(r[3]), ImgPx(r[4]))
\* the axis-aligned rectangle of a corner pair: its min and max corners
MinMaxCorners(r) ==
    << ImgPx(Min(r[1], r[3])), ImgPx(Min(r[2], r[4])),
       ImgPx(Max(r[1], r[3])), ImgPx(Max(r[2], r[4])) >>
\* two rectangles of image space equal to 1/100 of a pixel
SameRect(a, b) == \A k \in 1 .. 4 : Abs(a[k] - b[k]) <= 2

(* C18: for all corner pairs and image sizes, denormalize(normalize(x1, y1, *)
(* x2, y2)) is the rectangle (min(x1,x2), min(y1,y2), max(x1,x2),           *)
(* max(y1,y2)), and so is every result denormalize_coordinates returned.    *)
C18_NormalizeRoundTrip ==
    app = "managers" =>
        /\ \A r \in CornerPairs :
              LET n == NormalizedOf(im, r)
              IN  SameRect(IM_denormalize_coordinates(im, n[1], n[2], n[3], n[4]),
                           MinMaxCorners(r))
        /\ last_event.name = "denormalize_coordinates"
              => SameRect(last_event.ret, MinMaxCorners(last_event.arg))

\* denormalize_coordinates has returned for a pair drawn from the bottom right
\* to the top left
C18_Witness ==
    /\ app = "managers"
    /\ last_event.name = "denormalize_coordinates"
    /\ last_event.arg[1] > last_event.arg[3]
    /\ last_event.arg[2] > last_event.arg[4]
    /\ last_event.ret[1] < last_event.ret[3]

(* C19: normalize gives the same (xc, yc, w, h) when its two corner         *)
(* arguments are swapped: a box drawn in any of the four diagonal           *)
(* directions over the same rectangle is the same Box.                      *)
C19_NormalizeSymmetric ==
    /\ app = "managers" =>
          /\ \A r \in CornerPairs :
                /\ NormalizedOf(im, r) = NormalizedOf(im, <<r[3], r[4], r[1], r[2]>>)
                /\ NormalizedOf(im, r) = NormalizedOf(im, <<r[1], r[4], r[3], r[2]>>)
                /\ NormalizedOf(im, r) = NormalizedOf(im, <<r[3], r[2], r[1], r[4]>>)
          /\ last_event.name = "normalize_coordinates"
                => LET r == last_event.arg
                   IN  last_event.ret = NormalizedOf(im, <<r[3], r[4], r[1], r[2]>>)
    /\ (app = "monolith" /\ self.original_image # None) =>
          \A p \in PressPoints, q \in MovePoints :
              /\ NormalizedBox(self, p[1], p[2], q[1], q[2])
                    = NormalizedBox(self, q[1], q[2], p[1], p[2])
              /\ NormalizedBox(self, p[1], p[2], q[1], q[2])
                    = NormalizedBox(self, p[1], q[2], q[1], p[2])
              /\ NormalizedBox(self, p[1], p[2], q[1], q[2])
                    = NormalizedBox(self, q[1], p[2], p[1], q[2])

\* normalize_coordinates has returned a box with a size for a pair whose
\* second corner lies above and to the left of the first
C19_Witness ==
    /\ app = "managers"
    /\ last_event.name = "normalize_coordinates"
    /\ last_event.arg[3] < last_event.arg[1]
    /\ last_event.arg[4] < last_event.arg[2]
    /\ last_event.ret[3] > 0 /\ last_event.ret[4] > 0


\* the object m (an ImageLabeler or an ImageManager) seen in the view v
ViewedAs(m, v) ==
    [m EXCEPT !.scale_factor = v[1], !.image_x = v[2], !.image_y = v[3]]
\* the canvas projection of the image-space rectangle r in the view of m
ProjectionOf(m, r) ==
    LET p1 == IM_image_to_canvas_coords(m, ImgPx(r[1]), ImgPx(r[2]))
        p2 == IM_image_to_canvas_coords(m, ImgPx(r[3]), ImgPx(r[4]))
    IN  <<p1[1], p1[2], p2[1], p2[2]>>
\* the box src/core makes of a gesture over the projection of r
CoreDrawnBox(m, r) ==
    LET p == ProjectionOf(m, r)
        i1 == IM_canvas_to_image_coords(m, p[1], p[2])
        i2 == IM_canvas_to_image_coords(m, p[3], p[4])
    IN  IM_normalize_coordinates(m, i1[1], i1[2], i2[1], i2[2])
\* the box main.py makes of it; the events carry whole pixels
MainDrawnBox(o, r) ==
    LET p == ProjectionOf(o, r)
    IN  NormalizedBox(o, p[1] \div Px(1), p[2] \div Px(1),
                         p[3] \div Px(1), p[4] \div Px(1))

(* C20: the Box produced by a draw gesture is independent of the view: for  *)
(* any image-space rectangle and any two views, drawing the rectangle's     *)
(* canvas projection under either view yields the same normalized Box; on   *)
(* the 1000x500 image, canvas (100,100)-(300,200) at scale 1, origin (0,0)  *)
(* gives (0.2, 0.3, 0.2, 0.2).                                              *)
C20_BoxIndependentOfView ==
    /\ app = "managers" =>
          \A r \in ImageRects, v \in TransformViews :
              CoreDrawnBox(ViewedAs(im, v), r) = CoreDrawnBox(im, r)
    /\ app = "monolith" =>
          /\ \A r \in ImageRects, v \in TransformViews :
                MainDrawnBox(ViewedAs(self, v), r) = MainDrawnBox(self, r)
          /\ self.original_image = 1 =>
                NormalizedBox(ViewedAs(self, <<Percent(100), 0, 0>>),
                              100, 100, 300, 200)
                  = Box(DEFAULT_CLASS_ID, 2 * (CoordUnit \div 10),
                        3 * (CoordUnit \div 10), 2 * (CoordUnit \div 10),
                        2 * (CoordUnit \div 10))
          \* the boxes drawn so far are those of the image-space rectangle
          \* under the gesture, whatever the view they were drawn in
          /\ \A k \in 1 .. Len(self.boxes) :
                \E q \in MovePoints :
                  LET i1 == IM_canvas_to_image_coords(self, Px(100), Px(100))
                      i2 == IM_canvas_to_image_coords(self, Px(q[1]), Px(q[2]))
                      n == IM_normalize_coordinates(self, i1[1], i1[2], i2[1], i2[2])
                  IN  self.boxes[k] = Box(DEFAULT_CLASS_ID, n[1], n[2], n[3], n[4])

\* main.py has drawn a box in a view zoomed and panned away from 100% at (0,0)
C20_Witness ==
    /\ app = "monolith"
    /\ self.boxes # <<>>
    /\ self.scale_factor # Percent(100)
    /\ self.image_x # 0


\* every coordinate of the box lies in [0, 1]
InUnitRange(b) ==
    \A v \in {b.x_center, b.y_center, b.width, b.height} : 0 <= v /\ v <= CoordUnit

(* C21: every box in the store, drawn at any pan and zoom or read from a    *)
(* label file, has x_center, y_center, width and height within [0, 1].      *)
C21_BoxesWithinUnitRange ==
    /\ app = "monolith" => \A k \in 1 .. Len(self.boxes) : InUnitRange(self.boxes[k])
    /\ app = "managers" => \A k \in 1 .. Len(lm.boxes) : InUnitRange(lm.boxes[k])


\* the last box of main.py's list
LastBox == self.boxes[Len(self.boxes)]

(* C22: a release that ends a draw gesture appends a box exactly when the   *)
(* gesture is more than MIN_BOX_SIZE pixels long on both axes; otherwise    *)
(* the box list and the label files stay as they are; and every box a       *)
(* gesture appended has width > 0 and height > 0.                           *)
C22_SmallGesturesMakeNoBox ==
    /\ (app = "monolith" /\ self.rect /\ self.original_image # None) =>
          \A p \in ReleasePoints :
              LET w == end_pan_or_draw(World, p[1], p[2])
                  dx == Abs(p[1] - self.start_x)
                  dy == Abs(p[2] - self.start_y)
              IN  IF dx > MIN_BOX_SIZE /\ dy > MIN_BOX_SIZE
                  THEN /\ Len(w.o.boxes) = Len(self.boxes) + 1
                       /\ w.o.boxes[Len(w.o.boxes)].width > 0
                       /\ w.o.boxes[Len(w.o.boxes)].height > 0
                  ELSE w.o.boxes = self.boxes /\ w.files = files /\ ~w.exc
    /\ (app = "monolith" /\ last_event.name = "release_add" /\ ~last_event.exc)
          => self.boxes # <<>> /\ LastBox.width > 0 /\ LastBox.height > 0

\* a gesture too small for a box has ended: no box, no label file
C22_Witness ==
    /\ app = "monolith" /\ last_event.name = "release_small"
    /\ self.boxes = <<>> /\ ~self.rect
    /\ \A s \in Stems : files[s].st = "absent"


(* C23: whatever pointer presses (with or without the draw modifier), drags *)
(* and releases have arrived, the draw-session and the pan-session are not  *)
(* both active; in particular no press enters a pan-session during a        *)
(* draw-session.                                                            *)
C23_DrawAndPanExclusive ==
    /\ app = "monolith" => ~(self.drawing_box /\ self.is_panning)
    /\ app = "managers" => ~(zm.drawing_box /\ zm.is_panning)


(* C24: after every pointer release that ends a box-drawing gesture the     *)
(* draw-session is inactive: the drawing flag is false and no rectangle is  *)
(* pending, whether the box was accepted, was too small, or its save        *)
(* failed.                                                                  *)
C24_ReleaseEndsDrawSession ==
    (app = "monolith" /\ last_event.name \in {"release_add", "release_small"})
        => ~self.drawing_box /\ ~self.rect


(* C25: an add or an undo whose write of the label file fails still         *)
(* completes: no exception escapes the handler and the box list keeps the   *)
(* mutation (one box more, resp. the last box gone); in src/core a failed   *)
(* save_labels returns false and leaves the list as it is.                  *)
C25_WriteFailureDoesNotEscape ==
    [][ /\ (app = "monolith" /\ last_event'.name = "release_add")
            => /\ ~last_event'.exc
               /\ Len(self'.boxes) = Len(self.boxes) + 1
               /\ SubSeq(self'.boxes, 1, Len(self.boxes)) = self.boxes
        /\ (app = "monolith" /\ last_event'.name = "undo_box"
              /\ self.boxes # <<>> /\ self.box_rects # 0)
            => /\ ~last_event'.exc
               /\ self'.boxes = SubSeq(self.boxes, 1, Len(self.boxes) - 1)
        /\ (app = "managers" /\ last_event'.name = "save_labels")
            => /\ lm' = lm
               /\ (last_event'.arg # None
                     /\ files[get_label_file_path(last_event'.arg)].st = "locked")
                    => ~last_event'.ret ]_vars


(* C26: when the image that select, next or prev turns to cannot be         *)
(* decoded, no exception escapes the handler, and the active image path     *)
(* and the decoded image are never those of two different images.           *)
C26_FailedDecodeKeepsImageConsistent ==
    app = "monolith" =>
        /\ last_event.name \in {"select_image", "next_image", "prev_image"}
              => ~last_event.exc
        /\ self.image_path # None => self.original_image = self.image_path


\* the label files of the images of the directory other than image p
OtherLabelFiles(fs, p) ==
    [j \in {i \in Range(images_dir) : i # p} |-> fs[get_label_file_path(j)]]

(* C27: two distinct images of the image list have distinct label files:    *)
(* an add, an undo or a clear on the active image (in src/core, a save or   *)
(* a delete for one path) leaves the label file of every other image of     *)
(* the list as it was: neither created, changed nor deleted.                *)
C27_OneLabelFilePerImage ==
    [][ /\ ( /\ app = "monolith"
             /\ last_event'.name \in {"release_add", "undo_box", "clear_labels"}
             /\ self.image_path # None )
            => OtherLabelFiles(files', self.image_path)
                  = OtherLabelFiles(files, self.image_path)
        /\ ( /\ app = "managers"
             /\ last_event'.name \in {"save_labels", "delete_labels"}
             /\ last_event'.arg # None )
            => OtherLabelFiles(files', last_event'.arg)
                  = OtherLabelFiles(files, last_event'.arg) ]_vars


\* the line is '<int> <float> <float> <float> <float>'
WellFormedLine(parts) ==
    /\ Len(parts) = 5
    /\ \A k \in 1 .. 5 : parts[k].ok
    /\ ~parts[1].dot
    /\ \A k \in 2 .. 5 : parts[k].dot

(* C28: every line save writes is '<class_id:int> <float> <float> <float>   *)
(* <float>', for boxes drawn and for boxes loaded from a file, so that load *)
(* followed by save leaves a file written by save unchanged.  The label     *)
(* files found on disk all carry integer class ids and a save rewrites the  *)
(* whole file: after a save every line of the file is well formed, and      *)
(* loading and saving it again gives the same file.                         *)
C28_ClassIdWrittenAsInteger ==
    /\ ( /\ app = "monolith"
         /\ last_event.name \in {"release_add", "undo_box"} /\ ~last_event.exc
         /\ self.image_path # None )
        => /\ \A k \in 1 .. Len(ActiveFile.lines) : WellFormedLine(ActiveFile.lines[k])
           /\ save_labels(load_boxes(World)).files = files
    /\ ( /\ app = "managers"
         /\ last_event.name = "save_labels" /\ last_event.ret )
        => LET p == last_event.arg
               f == files[get_label_file_path(p)]
           IN  /\ \A k \in 1 .. Len(f.lines) : WellFormedLine(f.lines[k])
               /\ LM_save_labels(LM_load_labels(Core, p), p).files = files


(* C29: a wheel event that is rejected (by the cooldown, by the zoom limit  *)
(* or by an active draw-session) leaves the cooldown timestamp              *)
(* last_zoom_time as it was; only an accepted wheel zoom resets it.         *)
C29_RejectedWheelKeepsTimestamp ==
    /\ (app = "monolith" /\ view = "labeling") =>
          \A p \in WheelPoints, up \in BOOLEAN :
              LET o == on_zoom_mousewheel(World, canvas, p[1], p[2], up, now).o
              IN  o.scale_factor = self.scale_factor
                    => o.last_zoom_time = self.last_zoom_time
    /\ app = "managers" =>
          \A up \in BOOLEAN :
              LET c == IF up THEN ZM_zoom_in_mouse(Core, now)
                       ELSE ZM_zoom_out_mouse(Core, now)
              IN  ~c.ret => c.zm.last_zoom_time = zm.last_zoom_time


\* what the contract asks of one pointer movement to canvas point p during a
\* pan-session: origin and tracked position before (o, t) and after (o2, t2)
PanMoveContract(p, o, t, o2, t2) ==
    IF Abs(p[1] - t[1]) > 1 \/ Abs(p[2] - t[2]) > 1
    THEN /\ o2 = <<o[1] + Px(p[1] - t[1]), o[2] + Px(p[2] - t[2])>>
         /\ t2 = p
    ELSE o2 = o /\ t2 = t

\* the pointer position a pan-session tracks
TrackedOf(m) == <<m.pan_start_x, m.pan_start_y>>

(* C30: during a pan-session a pointer movement that is more than 1 unit    *)
(* away from the tracked position on some axis adds exactly that delta to   *)
(* the origin, unclamped, and becomes the tracked position; a movement      *)
(* within the deadzone changes neither; outside a pan-session (and outside  *)
(* a draw gesture, for main.py) a pointer movement leaves the origin as it  *)
(* is.  So origin minus tracked position is the same before and after       *)
(* every movement of a pan-session.                                         *)
C30_PanAddsDeltaToOrigin ==
    /\ app = "managers" =>
          \A p \in MovePoints :
              LET c == ZM_update_pan(Core, p[1], p[2])
              IN  IF zm.is_panning
                  THEN PanMoveContract(p, OriginOf(im), TrackedOf(zm),
                                       OriginOf(c.im), TrackedOf(c.zm))
                  ELSE OriginOf(c.im) = OriginOf(im)
    /\ (app = "monolith" /\ view = "labeling") =>
          \A p \in MovePoints :
              LET w == pan_or_draw(World, p[1], p[2])
              IN  IF self.is_panning
                  THEN /\ ~w.exc
                       /\ PanMoveContract(p, OriginOf(self), TrackedOf(self),
                                          OriginOf(w.o), TrackedOf(w.o))
                  ELSE OriginOf(w.o) = OriginOf(self)


\* the shift update_pan asked of the overlay, in canvas units
OverlayShift(c) ==
    IF c.moved = <<>> THEN <<0, 0>> ELSE <<Px(c.moved[1]), Px(c.moved[2])>>

(* C31: on every pan update the overlay of box rectangles is shifted by     *)
(* exactly the delta the origin received, in any state, also when no image  *)
(* is displayed: the delta handed to move_callback is the change of the     *)
(* origin.                                                                  *)
C31_OverlayShiftedWithOrigin ==
    app = "managers" =>
        \A p \in MovePoints :
            LET c == ZM_update_pan(Core, p[1], p[2])
            IN  OverlayShift(c) = << c.im.image_x - im.image_x,
                                     c.im.image_y - im.image_y >>


\* origin is where centring puts an image of scaled length len on a canvas
\* of length canvas_len: twice the origin, in pixels, is the free space
CentredAt(origin, canvas_len, len) ==
    /\ origin >= 0
    /\ IF len < canvas_len THEN origin = Px(canvas_len - len) \div 2
       ELSE origin = 0

\* the view m shows the image centred on the canvas cv, axis by axis
Centred(m, cv) ==
    LET size == ImageSize(m.original_image)
    IN  /\ CentredAt(m.image_x, cv[1], (size[1] * m.scale_factor) \div Percent(100))
        /\ CentredAt(m.image_y, cv[2], (size[2] * m.scale_factor) \div Percent(100))

(* C32: after fit/center, along each axis the origin is (canvas size -      *)
(* scaled image size) / 2 when the scaled image is smaller than the canvas  *)
(* on that axis and 0 otherwise, and so never negative: for src/core's      *)
(* fit and set_scale_and_center at every requested scale, and for main.py's *)
(* fit on a canvas laid out, outside a draw-session.                        *)
C32_FitCentresTheImage ==
    /\ (app = "managers" /\ im.original_image # None) =>
          /\ Centred(IM_fit_to_canvas(Core, canvas).im, canvas)
          /\ \A s \in ScaleRequests :
                LET c == IM_set_scale_and_center(Core, s, canvas[1], canvas[2])
                IN  c.im.scale_factor = s /\ Centred(c.im, canvas)
    /\ ( /\ app = "monolith" /\ self.original_image # None
         /\ ~self.drawing_box /\ canvas \in CanvasSizes ) =>
          Centred(zoom_to_fit(World, canvas).o, canvas)

\* the 1000 x 500 image was fitted to the 800 x 600 canvas: 720 x 360 at
\* (40, 120)
C32_Witness ==
    /\ app = "managers" /\ im.original_image = 1 /\ canvas = <<800, 600>>
    /\ im.scale_factor = Percent(72)
    /\ im.image_x = Px(40) /\ im.image_y = Px(120)


\* the canvas has been laid out
LaidOut(cv) == cv[1] > 1 /\ cv[2] > 1

(* C33: a fit-to-canvas request on a canvas that is not laid out (width <=  *)
(* 1 or height <= 1) applies no scale then (in main.py it is queued for a   *)
(* retry); on a canvas laid out it sets the scale to                        *)
(* min(canvasW / imgW, canvasH / imgH) * 0.9.  No fit sets a placeholder    *)
(* scale computed from a canvas not laid out.                               *)
C33_FitWaitsForLayout ==
    /\ (app = "managers" /\ im.original_image # None) =>
          LET c == IM_fit_to_canvas(Core, canvas)
          IN  IF LaidOut(canvas)
              THEN c.im.scale_factor = FitScale(canvas, ImageSize(im.original_image))
              ELSE CoreViewOf(c.im) = CoreViewOf(im)
    /\ (app = "monolith" /\ self.original_image # None /\ ~self.drawing_box) =>
          LET w == zoom_to_fit(World, canvas)
          IN  IF LaidOut(canvas)
              THEN w.o.scale_factor = FitScale(canvas, ImageSize(self.original_image))
              ELSE ViewOf(w.o) = ViewOf(self) /\ w.after > 0


(* C34: the box a release completes belongs to the image that was active    *)
(* at the press of its gesture.  Between the press and the release of a     *)
(* draw gesture no event changes the active image or its decoded picture,   *)
(* and the release appends one box to that image's list, normalized by      *)
(* that picture's size, and writes the list to that image's label file.     *)
C34_BoxBelongsToThePressedImage ==
    [][ (app = "monolith" /\ button /\ self.rect) =>
            IF button'
            THEN /\ self'.image_path = self.image_path
                 /\ self'.original_image = self.original_image
            ELSE (last_event'.name = "release_add" /\ ~last_event'.exc) =>
                    /\ \E p \in ReleasePoints :
                          self'.boxes =
                              Append(self.boxes,
                                     NormalizedBox(self, self.start_x, self.start_y,
                                                   p[1], p[2]))
                    /\ files'[LabelPath(self)] = TextFile(FormatLines(self'.boxes))
       ]_vars



\* the times a wheel event can carry: inside and after the cooldown
WheelTimes(last) == { last, last + ZOOM_COOLDOWN }

\* every zoom, fit and pan handler of main.py run on the current state
MainViewCommands ==
    { zoom_in(World, canvas), zoom_out(World, canvas), zoom_to_fit(World, canvas),
      zoom_to_100(World, canvas), zoom_to_200(World, canvas) }
    \cup { on_zoom_mousewheel(World, canvas, p[1], p[2], up, t) :
              p \in WheelPoints, up \in BOOLEAN, t \in WheelTimes(self.last_zoom_time) }
    \cup { start_pan_or_draw(World, p[1], p[2], FALSE) : p \in PressPoints }
    \cup { pan_or_draw(World, p[1], p[2]) : p \in MovePoints }
    \cup (IF self.rect THEN {} ELSE { end_pan_or_draw(World, p[1], p[2]) : p \in MovePoints })

\* every zoom, fit and pan method of src/core run on the current state
CoreViewCommands ==
    { ZM_zoom_in_keyboard(Core), ZM_zoom_out_keyboard(Core), IM_fit_to_canvas(Core, canvas),
      ZM_end_pan(Core) }
    \cup { ZM_zoom_in_mouse(Core, t) : t \in WheelTimes(zm.last_zoom_time) }
    \cup { ZM_zoom_out_mouse(Core, t) : t \in WheelTimes(zm.last_zoom_time) }
    \cup { ZM_zoom_to_scale(Core, s, b) : s \in ScaleRequests, b \in BOOLEAN }
    \cup { ZM_start_pan(Core, p[1], p[2]) : p \in PressPoints }
    \cup { ZM_update_pan(Core, p[1], p[2]) : p \in MovePoints }

(* C35: zoom, fit and pan touch the view only.  Whatever the state, a       *)
(* keyboard zoom, a wheel zoom, zoom to 100% or 200%, fit and every step of *)
(* a pan, accepted or rejected, leave the box list as it was and leave      *)
(* every label file as it was: none is created, written or deleted.         *)
C35_ViewCommandsKeepBoxesAndFiles ==
    /\ app = "monolith" =>
          \A w \in MainViewCommands : w.o.boxes = self.boxes /\ w.files = files
    /\ app = "managers" =>
          \A c \in CoreViewCommands : c.lm = lm /\ c.files = files

\* a box list and its label file are in place and a zoom in is accepted
C35_Witness ==
    /\ app = "monolith" /\ self.boxes # <<>>
    /\ self.image_path # None /\ files[LabelPath(self)].st = "file"
    /\ ViewOf(zoom_in(World, canvas).o) # ViewOf(self)



(* C36: navigation reads the disk and never writes it.  A step that        *)
(* selects a thumbnail, goes to the next or the previous image or returns  *)
(* to the grid leaves every label file as it was, also a file with         *)
(* malformed lines and a file that cannot be read.                         *)
C36_NavigationKeepsLabelFiles ==
    [][ Navigate => files' = files ]_vars

\* the next or previous key has brought back an image whose label file has a
\* malformed line between two good ones
C36_Witness ==
    /\ app = "monolith"
    /\ last_event.name \in {"next_image", "prev_image"} /\ ~last_event.exc
    /\ self.image_path = 1 /\ Len(self.boxes) > 0
    /\ files["a"] \in { TextFile(<<GoodLine1, ShortLine, GoodLine2>>),
                        TextFile(<<GoodLine1, GarbageLine, GoodLine2>>) }



\* Tk reports an exception that escaped a handler and runs the next one
Handled(w) == [w EXCEPT !.exc = FALSE]

RECURSIVE NextTimes(_, _)
NextTimes(w, k) ==
    IF k = 0 THEN w ELSE NextTimes(Handled(next_image(w, canvas)), k - 1)

\* the index a handler leaves is an index of the list and names the image it set
DisplaysInRange(w) ==
    /\ w.o.current_image_index \in 0 .. Len(w.o.images) - 1
    /\ w.o.image_path = w.o.images[w.o.current_image_index + 1]

(* C37: with a non-empty image list, the index every displaying handler    *)
(* uses is an index of the list, also when a directory with fewer images   *)
(* has been opened and the index kept from before is too large: the next   *)
(* and previous keys and a click on a thumbnail leave an index in [0, N)   *)
(* and the image of that index, and so does every state that shows an      *)
(* image.  From a shown image, next then previous and previous then next   *)
(* come back to it, and N times next comes back to it.                     *)
C37_IndexInRangeAndWraps ==
    (app = "monolith" /\ self.images # <<>>) =>
        LET N == Len(self.images)
            nx == Handled(next_image(World, canvas))
            pv == Handled(prev_image(World, canvas))
        IN  /\ DisplaysInRange(nx) /\ DisplaysInRange(pv)
            /\ \A i \in 0 .. N - 1 :
                  Decodable(self.images[i + 1]) =>
                      DisplaysInRange(select_image(World, i, canvas))
            /\ self.image_path # None =>
                  /\ DisplaysInRange(World)
                  /\ prev_image(nx, canvas).o.image_path = self.image_path
                  /\ next_image(pv, canvas).o.image_path = self.image_path
                  /\ NextTimes(World, N).o.image_path = self.image_path
                  /\ N > 1 => nx.o.image_path # self.image_path

\* a directory with fewer images has been opened and the index kept from the
\* directory before is past its end
C37_Witness ==
    /\ app = "monolith" /\ self.images # <<>>
    /\ self.current_image_index >= Len(self.images)



\* the image at this scale is no wider and no higher than the canvas
FitsCanvas(size, scale, cv) ==
    /\ size[1] * scale <= cv[1] * Percent(100)
    /\ size[2] * scale <= cv[2] * Percent(100)

(* C38: the fit scale makes the whole image visible.  On a laid-out        *)
(* canvas, after fit-to-canvas the image width times the scale is at most  *)
(* the canvas width and the image height times the scale at most the       *)
(* canvas height, for every image, also one more than ten times as large   *)
(* as the canvas.                                                          *)
C38_FitShowsWholeImage ==
    /\ (app = "monolith" /\ self.original_image # None /\ ~self.drawing_box
            /\ LaidOut(canvas)) =>
          FitsCanvas(ImageSize(self.original_image),
                     zoom_to_fit(World, canvas).o.scale_factor, canvas)
    /\ (app = "managers" /\ im.original_image # None /\ LaidOut(canvas)) =>
          FitsCanvas(ImageSize(im.original_image),
                     IM_fit_to_canvas(Core, canvas).im.scale_factor, canvas)



(* C39: the overlay holds one rectangle handle per box.  In the labeling   *)
(* view, after every handler that ran to its end with no button held (a    *)
(* draw release, undo, clear, a selection, next, previous) the number of   *)
(* handles in box_rects is the number of boxes.                            *)
C39_OneHandlePerBox ==
    (app = "monolith" /\ view = "labeling" /\ ~button /\ ~last_event.exc) =>
        self.box_rects = Len(self.boxes)

=============================================================================
